---------------------------- MODULE Spec2Model ----------------------------
(***************************************************************************)
(* State machines of the simulation cores of the repository's games.       *)
(*                                                                         *)
(*   game.py      Game.handle_input, Game.start_game, Game.update,         *)
(*                Player.shoot, Enemy.update, Bullet.update                *)
(*   game2.py     Level.reset, Level.add_platform, Level.update,           *)
(*                Level.cleanup, Game.handle_input, Game.start,            *)
(*                Game.update, Player.jump, Player.start_dash,             *)
(*                Player.update                                            *)
(*   game2mod.py  Game.handle_input, Game.start, Game.spawn_wave,          *)
(*                Game.update, Player.update, Bullet                       *)
(*   game3.py     Dungeon.generate, Game.__init__, Game.spawn_enemies_wave *)
(*                Game.handle_input, Game.physics, Game.update,            *)
(*                Player.shoot, Player.update, Enemy.update, Projectile    *)
(*   tictac.py    TicTacToe.on_click, check_winner, reset_game             *)
(*   patient.py   add_driver, request_ambulance                            *)
(*                                                                         *)
(* Times are integer milliseconds: dt = clock.tick(FPS)/1000.0 is a whole  *)
(* number of milliseconds.  Health is kept in thousandths, so that         *)
(* rate * dt is exact.  The games' positions and velocities are floats     *)
(* that are not part of this state: the outcome of a frame's motion is the *)
(* distance each test of the frame measures, and every such distance is an *)
(* input of the step that makes the test, drawn from a set that holds the  *)
(* values on both sides of every threshold it is compared with.  Fields    *)
(* that only steer the motion (wander_dir, change_timer of game.py's       *)
(* Enemy, the camera and the shake of game3.py) are left out with it.      *)
(*                                                                         *)
(* The log variables, the field age of game.py's bullets, the field n of   *)
(* game3.py's projectiles and s_over record what a step did or met; no     *)
(* action reads them to decide what it does.                               *)
(*                                                                         *)
(* The programs are independent: a behaviour is a run of one of them, and  *)
(* variant says which.  A handler that loops over a list takes one step    *)
(* per iteration; pc says where the handler is, and no input is handled    *)
(* before the handler has run to its end.                                  *)
(***************************************************************************)
EXTENDS Integers, Sequences, FiniteSets, TLC

VARIABLES
    variant,      \* which program runs: "game" | "cyber" | "wave" | "waves" | "dungeon"
                  \* | "forge" | "runner" | "level" | "hop" | "moves" | "board"
                  \* | "dispatch"
    \* ---- game.py
    a_state,      \* Game.state: "menu" | "playing" | "gameover"
    a_paused,     \* Game.paused
    a_running,    \* Game.running
    a_player,     \* Game.player: [health, reload, score]
    a_bullets,    \* Game.bullets: sequence of [id, life, age]
    a_enemies,    \* Game.enemies: sequence of [id, kind, health, state]
    a_particles,  \* Game.particles: sequence of remaining lives
    a_spawn,      \* Game.spawn_timer
    a_wave,       \* Game.wave
    a_dt,         \* Game.dt of the frame being run
    a_ticks,      \* calls of Game.update since start_game
    a_pc,         \* "idle" | "enemies" | "contact"
    a_todo,       \* list(self.enemies) still to be visited by Game.update
    a_crashed,    \* an exception left Game.run
    a_log,        \* what the last step of Game.update did (for the claims)
    \* ---- game2mod.py
    m_state,      \* Game.state: "menu" | "playing" | "gameover"
    m_running,    \* Game.running
    m_player,     \* Game.player: [health, ammo, reloading, reload_timer, score]
    m_bullets,    \* Game.bullets: sequence of [id, life]
    m_enemies,    \* Game.enemies: sequence of [id, etype, health]
    m_particles,  \* Game.particles: sequence of remaining lives
    m_spawn,      \* Game.spawn_timer
    m_wave,       \* Game.wave
    m_dt,         \* Game.dt of the frame being run
    m_ticks,      \* calls of Game.update since Game.start
    m_pc,         \* "idle" | "enemies" | "rest"
    m_todo,       \* list(self.enemies) still to be visited by Game.update
    m_crashed,    \* an exception left Game.run
    m_log,        \* what the last step of the frame did (for the claims)
    \* ---- game2mod.py, Game.spawn_wave on its own
    w_wave,       \* Game.wave when spawn_wave is called
    w_enemies,    \* Game.enemies
    w_done,       \* spawn_wave has returned
    \* ---- game3.py, construction
    d_rooms,      \* Dungeon.rooms: sequence of RectRoom
    d_tiles,      \* Dungeon.tiles: the set of floor ('.') cells
    d_attempt,    \* Dungeon.generate: iterations of the loop done
    d_draws,      \* number of candidate rooms drawn so far
    d_rejected,   \* number of candidates discarded because they intersect
    d_pc,         \* "generate" | "construct" | "playing" | "crashed"
    d_enemies,    \* Game.enemies right after Game.__init__
    \* ---- game3.py, play
    s_state,      \* Game.state: "playing" | "shop"
    s_running,    \* Game.running
    s_player,     \* Game.player: [hp, dash_timer, inv_timer, gold, cur_weapon]
    s_own,        \* Player.projectiles: sequence of [id, owner, dmg, life, n]
    s_projectiles, \* Game.projectiles: sequence of [id, owner, dmg, life, n]
    s_enemies,    \* Game.enemies: sequence of [id, kind, hp, fire_cooldown]
    s_particles,  \* Game.particles: sequence of remaining lives
    s_dt,         \* Game.dt of the frame being run
    s_ticks,      \* calls of Game.update
    s_pc,         \* "idle" | "enemies" | "projectiles" | "rest"
    s_todo,       \* the rest of the list copy the running loop iterates
    s_over,       \* the player's live projectiles that overlap an enemy this frame
    s_crashed,    \* an exception left Game.run
    s_log,        \* what the last step of Game.update did (for the claims)
    s_since,      \* simulated ms since the player was last hurt and since the last
                  \* dash that began, -1 for never (for the claims)
    \* ---- game2mod.py, the enemies and the wave logic of Game.update
    t_enemies,    \* Game.enemies: sequence of [id, etype, health]
    t_spawn,      \* Game.spawn_timer
    t_wave,       \* Game.wave
    t_state,      \* Game.state: "menu" | "playing"
    t_ticks,      \* calls of Game.update
    t_log,        \* what the last call of Game.update did (for the claims)
    \* ---- game2.py, Game
    r_state,      \* Game.state: "menu" | "playing" | "gameover"
    r_paused,     \* Game.paused
    r_running,    \* Game.running
    r_player,     \* Game.player: [x, vy, on_ground, double_jumps, dashing, dash_timer,
                  \*               stamina, score, combo]
    r_particles,  \* Game.particles: sequence of remaining lives
    r_cam,        \* Game.cam_x
    r_dt,         \* Game.dt of the frame being run
    r_ticks,      \* calls of Game.update since Game.start
    r_log,        \* what the last step did (for the claims)
    \* ---- game2.py, Level
    l_platforms,  \* Level.platforms: sequence of [x, y, w]
    l_obstacles,  \* Level.obstacles: sequence of [x2], twice pos.x
    l_orbs,       \* Level.orbs: sequence of [x]
    l_farthest,   \* Level.farthest_x
    l_difficulty, \* Level.difficulty, in 1200ths
    l_player,     \* player.pos.x
    l_cam,        \* Game.cam_x
    l_pc,         \* "idle" | "update" | "cleanup"
    l_draw,       \* the random draws of the running call of Level.update
    l_frames,     \* frames run
    l_log,        \* what the last step did (for the claims)
    \* ---- game2.py, the player over the platforms of Level.reset
    h_player,     \* Game.player: [x, y, vy, on_ground, double_jumps, dashing, dash_timer,
                  \*               stamina]
    h_dt,         \* Game.dt of the frame being run
    h_ticks,      \* calls of Game.update since Game.start
    h_events,     \* key events handled since the last call of Game.update
    h_log,        \* what the last step did (for the claims)
    \* ---- one moving object of any of the four games
    e_kind,       \* its class
    e_pos,        \* pos
    e_vel,        \* vel
    e_ticks,      \* calls of update
    e_log,        \* what the last call was given and found (for the claims)
    \* ---- tictac.py
    b_current,    \* TicTacToe.current_player
    b_board,      \* TicTacToe.board: index 0 .. 8 -> "" | "X" | "O"
    b_text,       \* the text of each of TicTacToe.buttons
    b_lit,        \* the buttons whose background is the highlight colour
    b_status,     \* TicTacToe.status_label: [kind, player]
    b_log,        \* what the last handler was given and did (for the claims)
    \* ---- patient.py
    p_drivers,    \* table drivers, committed: sequence of [id, is_available]
    p_requests,   \* table requests, committed: sequence of [id, user_id, driver_id, status]
    p_calls       \* the calls of request_ambulance: [pc, seen, nearest, reply]

avars == <<a_state, a_paused, a_running, a_player, a_bullets, a_enemies, a_particles,
           a_spawn, a_wave, a_dt, a_ticks, a_pc, a_todo, a_crashed, a_log>>

dvars == <<d_rooms, d_tiles, d_attempt, d_draws, d_rejected, d_pc, d_enemies>>

mvars == <<m_state, m_running, m_player, m_bullets, m_enemies, m_particles, m_spawn, m_wave,
           m_dt, m_ticks, m_pc, m_todo, m_crashed, m_log>>

wvars == <<w_wave, w_enemies, w_done>>

svars == <<s_state, s_running, s_player, s_own, s_projectiles, s_enemies, s_particles, s_dt,
           s_ticks, s_pc, s_todo, s_over, s_crashed, s_log, s_since>>

tvars == <<t_enemies, t_spawn, t_wave, t_state, t_ticks, t_log>>

rvars == <<r_state, r_paused, r_running, r_player, r_particles, r_cam, r_dt, r_ticks, r_log>>

lvars == <<l_platforms, l_obstacles, l_orbs, l_farthest, l_difficulty, l_player, l_cam, l_pc,
           l_draw, l_frames, l_log>>

hvars == <<h_player, h_dt, h_ticks, h_events, h_log>>

evars == <<e_kind, e_pos, e_vel, e_ticks, e_log>>

bvars == <<b_current, b_board, b_text, b_lit, b_status, b_log>>

pvars == <<p_drivers, p_requests, p_calls>>

vars == <<variant, avars, mvars, wvars, dvars, svars, tvars, rvars, lvars, hvars, evars,
          bvars, pvars>>

\* what a step of one program leaves alone
notA == <<variant, mvars, wvars, dvars, svars, tvars, rvars, lvars, hvars, evars,
          bvars, pvars>>
notM == <<variant, avars, wvars, dvars, svars, tvars, rvars, lvars, hvars, evars,
          bvars, pvars>>
notW == <<variant, avars, mvars, dvars, svars, tvars, rvars, lvars, hvars, evars,
          bvars, pvars>>
notD == <<variant, avars, mvars, wvars, svars, tvars, rvars, lvars, hvars, evars,
          bvars, pvars>>
notS == <<variant, avars, mvars, wvars, dvars, tvars, rvars, lvars, hvars, evars,
          bvars, pvars>>
notT == <<variant, avars, mvars, wvars, dvars, svars, rvars, lvars, hvars, evars,
          bvars, pvars>>
notR == <<variant, avars, mvars, wvars, dvars, svars, tvars, lvars, hvars, evars,
          bvars, pvars>>
notL == <<variant, avars, mvars, wvars, dvars, svars, tvars, rvars, hvars, evars,
          bvars, pvars>>
notH == <<variant, avars, mvars, wvars, dvars, svars, tvars, rvars, lvars, evars,
          bvars, pvars>>
notE == <<variant, avars, mvars, wvars, dvars, svars, tvars, rvars, lvars, hvars,
          bvars, pvars>>
notB == <<variant, avars, mvars, wvars, dvars, svars, tvars, rvars, lvars, hvars, evars,
          pvars>>
notP == <<variant, avars, mvars, wvars, dvars, svars, tvars, rvars, lvars, hvars, evars,
          bvars>>

Min(a, b) == IF a < b THEN a ELSE b
Max(a, b) == IF a > b THEN a ELSE b

\* the elements of a sequence
Range(q) == {q[k] : k \in 1 .. Len(q)}

\* list.remove(x) for an object x of identity id: the first such element goes
RECURSIVE RemoveId(_, _)
RemoveId(q, id) ==
    IF q = <<>> THEN <<>>
    ELSE IF Head(q).id = id THEN Tail(q)
    ELSE <<Head(q)>> \o RemoveId(Tail(q), id)

\* n particles of one burst
Burst(n, life) == [k \in 1 .. n |-> life]

\* the identity of a new object: one that no live object of the lists has
FreshId(used) == CHOOSE i \in 1 .. (Cardinality(used) + 1) : i \notin used

\* the frame times drawn for clock.tick(FPS), in milliseconds: a short frame
\* and a frame that was held up for longer than a second
DtDraws == {250, 1200}

(***************************************************************************)
(* game.py: configuration and the classes' constants                       *)
(***************************************************************************)
A_PLAYER_HEALTH == 100
A_PLAYER_RADIUS == 18
A_FIRE_RATE == 120
A_BULLET_LIFE == 2200
A_BULLET_RADIUS == 4
A_BULLET_DAMAGE == 20
A_CONTACT_RATE == 30
A_SPAWN_PERIOD == 6000
A_AGGRO_ENTER == 260
A_AGGRO_EXIT == 360
A_MUZZLE_PARTICLES == 8
A_HIT_PARTICLES == 10
A_KILL_PARTICLES == 25
\* the particle lives drawn: the low end of each random.uniform range
A_MUZZLE_LIFE == 250
A_HIT_LIFE == 300
A_KILL_LIFE == 600

\* bounds of the model: bullets in flight, calls of Game.update in one run
MaxBulletsA == 2
MaxTicksA == 2

A_EnemyRadius(kind) == IF kind = 0 THEN 14 ELSE 22
A_EnemyHealth(kind) == IF kind = 0 THEN 30 ELSE 90
A_KillScore(kind) == IF kind = 0 THEN 10 ELSE 35

\* Player(...) of Game.__init__ and start_game
A_NewPlayer == [health |-> A_PLAYER_HEALTH * 1000, reload |-> 0, score |-> 0]

\* Enemy(pos, kind)
A_NewEnemy(id, kind) ==
    [id |-> id, kind |-> kind, health |-> A_EnemyHealth(kind), state |-> "patrol"]

\* Bullet(pos, vel, owner)
A_NewBullet(id) == [id |-> id, life |-> A_BULLET_LIFE, age |-> 0]

\* Bullet.update: self.life -= dt
A_BulletUpdate(b, dt) == [b EXCEPT !.life = @ - dt]

\* Particle.update: self.life -= dt
A_ParticleUpdate(life, dt) == life - dt

\* a state machine with one threshold: no band in which the state is kept
A_EnemyStateFlat(dist, state) == IF dist < A_AGGRO_ENTER THEN "chase" ELSE "patrol"

\* Enemy.update: the state after the two distance tests
A_EnemyState(dist, state) ==
    IF dist < A_AGGRO_ENTER THEN "chase"
    ELSE IF dist > A_AGGRO_EXIT THEN "patrol"
    ELSE state

\* Vector2.normalize raises ValueError on a vector of length zero
NormalizeFails(length) == length = 0

\* Enemy.update normalises player_pos - self.pos in state chase, unguarded
A_EnemyUpdateFails(dist, state) == state = "chase" /\ NormalizeFails(dist)

\* the kinds drawn for a wave of n enemies: the first of either kind, the
\* others of kind 0
A_KindDraws(n) == {[k \in 1 .. n |-> IF k = 1 THEN c ELSE 0] : c \in {0, 1}}

\* the distances drawn for the tests of a frame
A_PlayerDistDraws == {0, A_AGGRO_ENTER - 1, A_AGGRO_ENTER, A_AGGRO_EXIT, A_AGGRO_EXIT + 1}
A_BulletDistDraws(kind) ==
    {A_EnemyRadius(kind) + A_BULLET_RADIUS - 1, A_EnemyRadius(kind) + A_BULLET_RADIUS}
A_ContactDistDraws(kind) ==
    {A_PLAYER_RADIUS + A_EnemyRadius(kind) - 1, A_PLAYER_RADIUS + A_EnemyRadius(kind)}

A_Ids(q) == {x.id : x \in Range(q)}
A_Used == A_Ids(a_bullets) \cup A_Ids(a_enemies)

A_NoLog == [step |-> "none"]

A_Live == variant = "game" /\ a_running /\ ~a_crashed

(***************************************************************************)
(* game.py: Game.handle_input, one event per step                          *)
(***************************************************************************)
\* Game.start_game
A_StartGame ==
    /\ a_state' = "playing"
    /\ a_player' = A_NewPlayer
    /\ a_bullets' = <<>>
    /\ a_enemies' = <<>>
    /\ a_particles' = <<>>
    /\ a_wave' = 1
    /\ a_spawn' = 0
    /\ a_ticks' = 0

\* pygame.QUIT
A_Quit ==
    /\ A_Live /\ a_pc = "idle"
    /\ a_running' = FALSE
    /\ UNCHANGED <<a_state, a_paused, a_player, a_bullets, a_enemies, a_particles, a_spawn,
                   a_wave, a_dt, a_ticks, a_pc, a_todo, a_crashed, a_log>>
    /\ UNCHANGED notA

\* KEYDOWN K_ESCAPE
A_Escape ==
    /\ A_Live /\ a_pc = "idle"
    /\ IF a_state = "playing"
       THEN a_paused' = ~a_paused /\ UNCHANGED a_running
       ELSE a_running' = FALSE /\ UNCHANGED a_paused
    /\ UNCHANGED <<a_state, a_player, a_bullets, a_enemies, a_particles, a_spawn,
                   a_wave, a_dt, a_ticks, a_pc, a_todo, a_crashed, a_log>>
    /\ UNCHANGED notA

\* KEYDOWN K_SPACE in the menu
A_Space ==
    /\ A_Live /\ a_pc = "idle"
    /\ a_state = "menu"
    /\ A_StartGame
    /\ UNCHANGED <<a_paused, a_running, a_dt, a_pc, a_todo, a_crashed, a_log>>
    /\ UNCHANGED notA

\* KEYDOWN K_r after the game is over
A_KeyR ==
    /\ A_Live /\ a_pc = "idle"
    /\ a_state = "gameover"
    /\ A_StartGame
    /\ UNCHANGED <<a_paused, a_running, a_dt, a_pc, a_todo, a_crashed, a_log>>
    /\ UNCHANGED notA

\* MOUSEBUTTONDOWN, button 1: Player.shoot (a zero direction becomes (1, 0))
A_Shoot ==
    /\ A_Live /\ a_pc = "idle"
    /\ a_state = "playing" /\ ~a_paused
    /\ Len(a_bullets) < MaxBulletsA
    /\ IF a_player.reload > 0
       THEN UNCHANGED <<a_player, a_bullets, a_particles>>
       ELSE /\ a_bullets' = Append(a_bullets, A_NewBullet(FreshId(A_Used)))
            /\ a_player' = [a_player EXCEPT !.reload = A_FIRE_RATE]
            /\ a_particles' = a_particles \o Burst(A_MUZZLE_PARTICLES, A_MUZZLE_LIFE)
    /\ UNCHANGED <<a_state, a_paused, a_running, a_enemies, a_spawn, a_wave, a_dt, a_ticks,
                   a_pc, a_todo, a_crashed, a_log>>
    /\ UNCHANGED notA

(***************************************************************************)
(* game.py: Game.update.  A_TickBegin runs it up to the loop over          *)
(* list(self.enemies), A_EnemyStep is one iteration of that loop, and      *)
(* A_TickEnd runs the rest.                                                *)
(***************************************************************************)
\* Game.spawn_enemy, once per kind drawn
RECURSIVE A_SpawnEnemies(_, _, _)
A_SpawnEnemies(q, kinds, others) ==
    IF kinds = <<>> THEN q
    ELSE A_SpawnEnemies(Append(q, A_NewEnemy(FreshId(others \cup A_Ids(q)), Head(kinds))),
                        Tail(kinds), others)

\* for b in list(self.bullets): b.update(dt); remove it when life <= 0
A_UpdateBullets(q, dt) ==
    SelectSeq([k \in 1 .. Len(q) |-> [A_BulletUpdate(q[k], dt) EXCEPT !.age = @ + dt]],
              LAMBDA b : ~(b.life <= 0))

\* for p in list(self.particles): p.update(dt); remove it when life <= 0
A_UpdateParticles(q, dt) ==
    SelectSeq([k \in 1 .. Len(q) |-> A_ParticleUpdate(q[k], dt)], LAMBDA l : ~(l <= 0))

A_TickBegin ==
    /\ A_Live /\ a_pc = "idle"
    /\ a_state = "playing" /\ ~a_paused
    /\ a_ticks < MaxTicksA
    /\ a_ticks' = a_ticks + 1
    /\ \E dt \in DtDraws :
          LET due == a_spawn - dt <= 0 IN
          /\ a_dt' = dt
          /\ a_player' = [a_player EXCEPT !.reload = Max(0, @ - dt)]
          /\ a_bullets' = A_UpdateBullets(a_bullets, dt)
          /\ IF due
             THEN /\ \E kinds \in A_KindDraws(a_wave + 2) :
                        a_enemies' = A_SpawnEnemies(a_enemies, kinds, A_Ids(a_bullets))
                  /\ a_spawn' = A_SPAWN_PERIOD
                  /\ a_wave' = a_wave + 1
             ELSE /\ a_spawn' = a_spawn - dt
                  /\ UNCHANGED <<a_enemies, a_wave>>
          /\ a_todo' = [k \in 1 .. Len(a_enemies') |-> a_enemies'[k].id]
          /\ a_pc' = IF a_enemies' = <<>> THEN "contact" ELSE "enemies"
    /\ a_log' = A_NoLog
    /\ UNCHANGED <<a_state, a_paused, a_running, a_particles, a_crashed>>
    /\ UNCHANGED notA

\* the enemy of identity id
A_Enemy(id) == CHOOSE e \in Range(a_enemies) : e.id = id

\* the bullets an enemy meets: (b.pos - e.pos).length() < e.radius + b.radius
A_Hits(e, bd) == {b \in Range(a_bullets) : bd[b.id] < A_EnemyRadius(e.kind) + A_BULLET_RADIUS}

\* a loop over self.enemies itself: a removal moves the next enemy into the
\* place of the removed one, and the loop passes it by
A_RestOfLiveList(todo, removed) ==
    IF removed /\ Len(todo) > 1 THEN Tail(Tail(todo)) ELSE Tail(todo)

\* for e in list(self.enemies): what is left to visit after an iteration; the
\* copy does not change when the visited enemy is removed from self.enemies
A_Rest(todo, removed) == Tail(todo)

\* the iterations of the running pass before this one, and the enemies the
\* pass began with
A_Visited == IF a_log.step = "enemy" THEN a_log.nth ELSE 0
A_PassSize == IF a_log.step = "enemy" THEN a_log.of ELSE Len(a_enemies)

A_EnemyStep ==
    /\ A_Live /\ a_pc = "enemies"
    /\ \E dist \in A_PlayerDistDraws,
          bd \in [A_Ids(a_bullets) -> A_BulletDistDraws(A_Enemy(Head(a_todo)).kind)] :
          LET e == A_Enemy(Head(a_todo))
              st == A_EnemyState(dist, e.state)
              hits == A_Hits(e, bd)
              hp == e.health - A_BULLET_DAMAGE * Cardinality(hits)
              dead == hp <= 0
              upd == [e EXCEPT !.state = st, !.health = hp]
          IN
          IF A_EnemyUpdateFails(dist, st)
          THEN /\ a_crashed' = TRUE
               /\ a_enemies' = [k \in 1 .. Len(a_enemies) |->
                                   IF a_enemies[k].id = e.id
                                   THEN [e EXCEPT !.state = st] ELSE a_enemies[k]]
               /\ a_log' = [step |-> "raise", id |-> e.id, kind |-> e.kind, dist |-> dist,
                            prev |-> e.state, now |-> st]
               /\ UNCHANGED <<a_bullets, a_particles, a_player, a_todo, a_pc>>
          ELSE /\ a_bullets' = SelectSeq(a_bullets, LAMBDA b : b \notin hits)
               /\ a_enemies' =
                     IF dead THEN RemoveId(a_enemies, e.id)
                     ELSE [k \in 1 .. Len(a_enemies) |->
                              IF a_enemies[k].id = e.id THEN upd ELSE a_enemies[k]]
               /\ a_player' =
                     IF dead THEN [a_player EXCEPT !.score = @ + A_KillScore(e.kind)]
                     ELSE a_player
               /\ a_particles' = a_particles
                     \o Burst(A_HIT_PARTICLES * Cardinality(hits), A_HIT_LIFE)
                     \o (IF dead THEN Burst(A_KILL_PARTICLES, A_KILL_LIFE) ELSE <<>>)
               /\ a_todo' = A_Rest(a_todo, dead)
               /\ a_pc' = IF A_Rest(a_todo, dead) = <<>> THEN "contact" ELSE "enemies"
               /\ a_log' = [step |-> "enemy", id |-> e.id, kind |-> e.kind, dist |-> dist,
                            prev |-> e.state, now |-> st, before |-> e.health, hits |-> Cardinality(hits),
                            removed |-> dead, gain |-> a_player'.score - a_player.score,
                            nth |-> A_Visited + 1, of |-> A_PassSize,
                            bullets |-> Len(a_bullets), enemies |-> Len(a_enemies)]
               /\ UNCHANGED a_crashed
    /\ UNCHANGED <<a_state, a_paused, a_running, a_spawn, a_wave, a_dt, a_ticks>>
    /\ UNCHANGED notA

\* the enemies in contact: (player.pos - e.pos).length() < player.radius + e.radius
A_Touching(cd) ==
    {e \in Range(a_enemies) : cd[e.id] < A_PLAYER_RADIUS + A_EnemyRadius(e.kind)}

\* a contact that costs the same however many enemies overlap the player
A_ContactDamageOnce(dt, n) == A_CONTACT_RATE * dt * (IF n > 0 THEN 1 ELSE 0)

\* for e in self.enemies: if overlapping: self.player.health -= 30 * self.dt
A_ContactDamage(dt, n) == A_CONTACT_RATE * dt * n

A_TickEnd ==
    /\ A_Live /\ a_pc = "contact"
    /\ \E cd \in {f \in [A_Ids(a_enemies) -> A_ContactDistDraws(0) \cup A_ContactDistDraws(1)] :
                    \A e \in Range(a_enemies) : f[e.id] \in A_ContactDistDraws(e.kind)} :
          LET health == a_player.health
                           - A_ContactDamage(a_dt, Cardinality(A_Touching(cd))) IN
          /\ a_player' = [a_player EXCEPT !.health = health]
          /\ a_state' = IF health <= 0 THEN "gameover" ELSE a_state
          /\ a_log' = [step |-> "contact", touching |-> Cardinality(A_Touching(cd)),
                       dt |-> a_dt, before |-> a_player.health]
    /\ a_particles' = A_UpdateParticles(a_particles, a_dt)
    /\ a_pc' = "idle"
    /\ a_todo' = <<>>
    /\ UNCHANGED <<a_paused, a_running, a_bullets, a_enemies, a_spawn, a_wave, a_dt, a_ticks,
                   a_crashed>>
    /\ UNCHANGED notA

AInit ==
    /\ a_state = "menu"
    /\ a_paused = FALSE
    /\ a_running = TRUE
    /\ a_player = A_NewPlayer
    /\ a_bullets = <<>>
    /\ a_enemies = <<>>
    /\ a_particles = <<>>
    /\ a_spawn = 0
    /\ a_wave = 1
    /\ a_dt = 0
    /\ a_ticks = 0
    /\ a_pc = "idle"
    /\ a_todo = <<>>
    /\ a_crashed = FALSE
    /\ a_log = A_NoLog

ANext == A_Quit \/ A_Escape \/ A_Space \/ A_KeyR \/ A_Shoot \/ A_TickBegin \/ A_EnemyStep \/ A_TickEnd

(***************************************************************************)
(* game2mod.py: configuration and the classes' constants                   *)
(***************************************************************************)
M_PLAYER_MAX_HEALTH == 100
M_PLAYER_AMMO == 30
M_RELOAD_TIME == 1500
M_WAVE_INTERVAL == 3000
M_BULLET_LIFE == 1200
M_BULLET_DAMAGE == 20
M_HIT_RANGE == 20
M_CONTACT_RANGE == 28
M_CONTACT_RATE == 20
M_BOSS_PERIOD == 5
M_SHOT_PARTICLES == 4
M_SHOT_LIFE == 300
M_KILL_PARTICLES == 12
M_KILL_LIFE == 500

\* bound of the model: calls of Game.update in one run
MaxTicksM == 2

\* types = ["normal", "fast", "tank"]
M_Types == {"normal", "fast", "tank"}

M_EnemyHealth(etype) ==
    IF etype = "fast" THEN 20
    ELSE IF etype = "tank" THEN 100
    ELSE IF etype = "boss" THEN 500
    ELSE 30

M_KillScore(etype) == IF etype # "boss" THEN 10 ELSE 200

\* Player(pos)
M_NewPlayer ==
    [health |-> M_PLAYER_MAX_HEALTH * 1000, ammo |-> M_PLAYER_AMMO, reloading |-> FALSE,
     reload_timer |-> 0, score |-> 0]

\* Enemy(pos, etype)
M_NewEnemy(id, etype) == [id |-> id, etype |-> etype, health |-> M_EnemyHealth(etype)]

\* Bullet(pos, dir)
M_NewBullet(id) == [id |-> id, life |-> M_BULLET_LIFE]

\* Bullet.update: self.life -= dt
M_BulletUpdate(b, dt) == [b EXCEPT !.life = @ - dt]

\* Bullet.__init__ normalises dir = mouse - player.pos, unguarded
M_BulletInitFails(length) == NormalizeFails(length)

\* Game.spawn_wave: the number of random.choice(types) calls it makes
M_TypeChoices(wave) == IF wave % M_BOSS_PERIOD = 0 THEN 0 ELSE wave * 2

\* a spawner without the boss wave
M_SpawnWaveNoBoss(enemies, wave, types) ==
    enemies \o [k \in 1 .. Len(types) |-> M_NewEnemy(Len(enemies) + k, types[k])]

\* Game.spawn_wave, for the types its random.choice calls return
M_SpawnWave(enemies, wave, types) ==
    IF wave % M_BOSS_PERIOD = 0
    THEN Append(enemies, M_NewEnemy(Len(enemies) + 1, "boss"))
    ELSE enemies \o [k \in 1 .. (wave * 2) |-> M_NewEnemy(Len(enemies) + k, types[k])]

\* a collision pass that does not stop at the first bullet
M_StruckAll(over) == over

\* for b in list(self.bullets): if it overlaps: ...; break
M_Struck(over) == IF over = <<>> THEN <<>> ELSE <<Head(over)>>

\* a scoring branch that is entered only once health is below zero
M_KillsLate(health, n) == Cardinality({k \in 1 .. n : health - M_BULLET_DAMAGE * k < 0})

\* the hits, of n in a row on an enemy of this health, that find health <= 0:
\* each of them runs the scoring branch
M_Kills(health, n) == Cardinality({k \in 1 .. n : health - M_BULLET_DAMAGE * k <= 0})

\* the draws: the types of a wave in a run of the game (the first enemy of any
\* type, the others normal), the length of the aiming vector, the distances
M_TypeDraws(n) == {[k \in 1 .. n |-> IF k = 1 THEN t ELSE "normal"] : t \in M_Types}
M_AimDraws == {0, 1}
M_ContactDistDraws == {M_CONTACT_RANGE - 1, M_CONTACT_RANGE}
M_BulletDistDraws == {M_HIT_RANGE - 1, M_HIT_RANGE}

M_Ids(q) == {x.id : x \in Range(q)}

M_NoLog == [step |-> "none"]

M_Live == variant = "cyber" /\ m_running /\ ~m_crashed

(***************************************************************************)
(* game2mod.py: Game.handle_input, one event per step                      *)
(***************************************************************************)
\* Game.start: spawn_timer is not assigned
M_Start ==
    \E types \in M_TypeDraws(M_TypeChoices(1)) :
       /\ m_player' = M_NewPlayer
       /\ m_bullets' = <<>>
       /\ m_particles' = <<>>
       /\ m_wave' = 1
       /\ m_enemies' = M_SpawnWave(<<>>, 1, types)
       /\ m_state' = "playing"
       /\ m_ticks' = 0

\* pygame.QUIT
M_Quit ==
    /\ M_Live /\ m_pc = "idle"
    /\ m_running' = FALSE
    /\ UNCHANGED <<m_state, m_player, m_bullets, m_enemies, m_particles, m_spawn, m_wave,
                   m_dt, m_ticks, m_pc, m_todo, m_crashed, m_log>>
    /\ UNCHANGED notM

\* KEYDOWN K_ESCAPE
M_Escape ==
    /\ M_Live /\ m_pc = "idle"
    /\ IF m_state = "playing"
       THEN m_state' = "menu" /\ UNCHANGED m_running
       ELSE m_running' = FALSE /\ UNCHANGED m_state
    /\ UNCHANGED <<m_player, m_bullets, m_enemies, m_particles, m_spawn, m_wave,
                   m_dt, m_ticks, m_pc, m_todo, m_crashed, m_log>>
    /\ UNCHANGED notM

\* KEYDOWN K_SPACE
M_Space ==
    /\ M_Live /\ m_pc = "idle"
    /\ m_state # "playing"
    /\ M_Start
    /\ UNCHANGED <<m_running, m_spawn, m_dt, m_pc, m_todo, m_crashed, m_log>>
    /\ UNCHANGED notM

\* KEYDOWN K_r
M_KeyR ==
    /\ M_Live /\ m_pc = "idle"
    /\ m_player.reloading = FALSE /\ m_player.ammo < M_PLAYER_AMMO
    /\ m_player' = [m_player EXCEPT !.reloading = TRUE, !.reload_timer = M_RELOAD_TIME]
    /\ UNCHANGED <<m_state, m_running, m_bullets, m_enemies, m_particles, m_spawn, m_wave,
                   m_dt, m_ticks, m_pc, m_todo, m_crashed, m_log>>
    /\ UNCHANGED notM

(***************************************************************************)
(* game2mod.py: a frame of Game.run in state playing.  M_FrameBegin is the *)
(* mouse part of handle_input and Game.update up to the loop over          *)
(* list(self.enemies), M_EnemyStep is one iteration of that loop, and      *)
(* M_FrameEnd runs the rest of Game.update.                                *)
(***************************************************************************)
\* a reload that hands out the rounds at half of RELOAD_TIME
M_PlayerUpdateHalfway(p, dt) ==
    IF p.reloading
    THEN IF p.reload_timer - dt <= M_RELOAD_TIME \div 2
         THEN [p EXCEPT !.reload_timer = @ - dt, !.reloading = FALSE, !.ammo = M_PLAYER_AMMO]
         ELSE [p EXCEPT !.reload_timer = @ - dt]
    ELSE p

\* Player.update: the reload timer
M_PlayerUpdate(p, dt) ==
    IF p.reloading
    THEN IF p.reload_timer - dt <= 0
         THEN [p EXCEPT !.reload_timer = @ - dt, !.reloading = FALSE, !.ammo = M_PLAYER_AMMO]
         ELSE [p EXCEPT !.reload_timer = @ - dt]
    ELSE p

\* a bullet loop that removes a bullet only once its life is below zero
M_UpdateBulletsLate(q, dt) ==
    SelectSeq([k \in 1 .. Len(q) |-> M_BulletUpdate(q[k], dt)], LAMBDA b : ~(b.life < 0))

\* for b in list(self.bullets): b.update(dt); remove it when life <= 0
M_UpdateBullets(q, dt) ==
    SelectSeq([k \in 1 .. Len(q) |-> M_BulletUpdate(q[k], dt)], LAMBDA b : ~(b.life <= 0))

\* for p in list(self.particles): p.update(dt); remove it when life <= 0
M_UpdateParticles(q, dt) ==
    SelectSeq([k \in 1 .. Len(q) |-> q[k] - dt], LAMBDA l : ~(l <= 0))

\* self.dt of a frame (clock.tick(FPS) / 1000.0, not capped), in ms: the
\* longest is the frame in which two enemies in contact take all the health
M_DtDraws == DtDraws \cup {2500}

M_FrameBegin ==
    /\ M_Live /\ m_pc = "idle"
    /\ m_state = "playing"
    /\ m_ticks < MaxTicksM
    /\ \E dt \in M_DtDraws, pressed \in BOOLEAN, aim \in M_AimDraws :
          LET fires == pressed /\ m_player.ammo > 0 /\ ~m_player.reloading
              shot == IF fires
                      THEN Append(m_bullets, M_NewBullet(FreshId(M_Ids(m_bullets))))
                      ELSE m_bullets
              armed == IF fires THEN [m_player EXCEPT !.ammo = @ - 1] ELSE m_player
          IN
          /\ pressed \/ aim = 1        \* the aim is read only when the button is down
          /\ m_dt' = dt
          /\ IF fires /\ M_BulletInitFails(aim)
             THEN /\ m_crashed' = TRUE
                  /\ m_log' = [step |-> "raise"]
                  /\ UNCHANGED <<m_player, m_bullets, m_particles, m_ticks, m_pc, m_todo>>
             ELSE /\ m_player' = M_PlayerUpdate(armed, dt)
                  /\ m_bullets' = M_UpdateBullets(shot, dt)
                  /\ m_particles' = m_particles
                        \o (IF fires THEN Burst(M_SHOT_PARTICLES, M_SHOT_LIFE) ELSE <<>>)
                  /\ m_ticks' = m_ticks + 1
                  /\ m_todo' = [k \in 1 .. Len(m_enemies) |-> m_enemies[k].id]
                  /\ m_pc' = IF m_enemies = <<>> THEN "rest" ELSE "enemies"
                  /\ m_log' = M_NoLog
                  /\ UNCHANGED m_crashed
    /\ UNCHANGED <<m_state, m_running, m_enemies, m_spawn, m_wave>>
    /\ UNCHANGED notM

\* the enemy of identity id
M_Enemy(id) == CHOOSE e \in Range(m_enemies) : e.id = id

\* for e in list(self.enemies): what is left to visit after an iteration
M_Rest(todo, removed) == Tail(todo)

\* the iterations of the running pass before this one, and the enemies the
\* pass began with
M_Visited == IF m_log.step = "enemy" THEN m_log.nth ELSE 0
M_PassSize == IF m_log.step = "enemy" THEN m_log.of ELSE Len(m_enemies)

\* a test that ends the game only once the health is below zero
M_GameOverBelowZero(touch, health) == touch /\ health < 0

\* if self.player.health <= 0 (inside the contact branch): self.state = "gameover"
M_GameOver(touch, health) == touch /\ health <= 0

M_EnemyStep ==
    /\ M_Live /\ m_pc = "enemies"
    /\ \E cd \in M_ContactDistDraws, bd \in [M_Ids(m_bullets) -> M_BulletDistDraws] :
          LET e == M_Enemy(Head(m_todo))
              touch == cd < M_CONTACT_RANGE
              health == IF touch THEN m_player.health - M_CONTACT_RATE * m_dt
                        ELSE m_player.health
              over == SelectSeq(m_bullets, LAMBDA b : bd[b.id] < M_HIT_RANGE)
              struck == M_Struck(over)
              hp == e.health - M_BULLET_DAMAGE * Len(struck)
              kills == M_Kills(e.health, Len(struck))
              gain == kills * M_KillScore(e.etype)
          IN
          /\ m_player' = [m_player EXCEPT !.health = health, !.score = @ + gain]
          /\ m_state' = IF M_GameOver(touch, health) THEN "gameover" ELSE m_state
          /\ m_bullets' = SelectSeq(m_bullets, LAMBDA b : b \notin Range(struck))
          /\ m_enemies' =
                IF kills > 0 THEN RemoveId(m_enemies, e.id)
                ELSE [k \in 1 .. Len(m_enemies) |->
                         IF m_enemies[k].id = e.id THEN [e EXCEPT !.health = hp]
                         ELSE m_enemies[k]]
          /\ m_particles' = m_particles \o Burst(M_KILL_PARTICLES * kills, M_KILL_LIFE)
          /\ m_todo' = M_Rest(m_todo, kills > 0)
          /\ m_pc' = IF M_Rest(m_todo, kills > 0) = <<>> THEN "rest" ELSE "enemies"
          /\ m_log' = [step |-> "enemy", id |-> e.id, etype |-> e.etype, before |-> e.health,
                       over |-> Len(over), hits |-> Len(struck), removed |-> kills > 0,
                       gain |-> gain, touch |-> touch, dt |-> m_dt,
                       hurt |-> m_player.health - health,
                       nth |-> M_Visited + 1, of |-> M_PassSize,
                       bullets |-> Len(m_bullets), enemies |-> Len(m_enemies)]
    /\ UNCHANGED <<m_running, m_spawn, m_wave, m_dt, m_ticks, m_crashed>>
    /\ UNCHANGED notM

\* the wave logic: a wave is due when no enemy is left and the timer, advanced
\* by dt, is past WAVE_INTERVAL
M_WaveDue(enemies, spawn, dt) == enemies = <<>> /\ spawn + dt > M_WAVE_INTERVAL

\* a timer that runs whether or not an enemy is left
M_SpawnTimerFree(enemies, spawn, dt) ==
    IF spawn + dt > M_WAVE_INTERVAL THEN 0 ELSE spawn + dt

\* the wave logic: the spawn timer after it
M_SpawnTimer(enemies, spawn, dt) ==
    IF enemies # <<>> THEN spawn
    ELSE IF spawn + dt > M_WAVE_INTERVAL THEN 0
    ELSE spawn + dt

M_FrameEnd ==
    /\ M_Live /\ m_pc = "rest"
    /\ m_particles' = M_UpdateParticles(m_particles, m_dt)
    /\ m_spawn' = M_SpawnTimer(m_enemies, m_spawn, m_dt)
    /\ IF M_WaveDue(m_enemies, m_spawn, m_dt)
       THEN /\ \E types \in M_TypeDraws(M_TypeChoices(m_wave + 1)) :
                  m_enemies' = M_SpawnWave(m_enemies, m_wave + 1, types)
            /\ m_wave' = m_wave + 1
       ELSE UNCHANGED <<m_enemies, m_wave>>
    /\ m_pc' = "idle"
    /\ m_todo' = <<>>
    /\ m_log' = M_NoLog
    /\ UNCHANGED <<m_state, m_running, m_player, m_bullets, m_dt, m_ticks, m_crashed>>
    /\ UNCHANGED notM

MInit ==
    /\ m_state = "menu"
    /\ m_running = TRUE
    /\ m_player = M_NewPlayer
    /\ m_bullets = <<>>
    /\ m_enemies = <<>>
    /\ m_particles = <<>>
    /\ m_spawn = 0
    /\ m_wave = 1
    /\ m_dt = 0
    /\ m_ticks = 0
    /\ m_pc = "idle"
    /\ m_todo = <<>>
    /\ m_crashed = FALSE
    /\ m_log = M_NoLog

\* rounds left in the magazine in the later states of a run
M_SpentDraws == {0, 1}

\* a later state of the first run: the button was held down in frames long
\* enough for each bullet and its particles to expire in the frame that made
\* them, no bullet struck and no enemy came into contact, until ammo rounds
\* were left
M_Spent(ammo) ==
    /\ m_state = "playing"
    /\ m_running = TRUE
    /\ m_player = [M_NewPlayer EXCEPT !.ammo = ammo]
    /\ m_bullets = <<>>
    /\ \E types \in M_TypeDraws(M_TypeChoices(1)) : m_enemies = M_SpawnWave(<<>>, 1, types)
    /\ m_particles = <<>>
    /\ m_spawn = 0
    /\ m_wave = 1
    /\ m_dt = 0
    /\ m_ticks = 0
    /\ m_pc = "idle"
    /\ m_todo = <<>>
    /\ m_crashed = FALSE
    /\ m_log = M_NoLog

MNext == M_Quit \/ M_Escape \/ M_Space \/ M_KeyR \/ M_FrameBegin \/ M_EnemyStep \/ M_FrameEnd

(***************************************************************************)
(* game2mod.py: Game.spawn_wave on its own, for a wave index drawn from    *)
(* 1 .. MaxWave and the empty enemy list it is always called with          *)
(***************************************************************************)
MaxWave == 5

W_SpawnWave ==
    /\ variant = "wave" /\ ~w_done
    /\ \E types \in [1 .. M_TypeChoices(w_wave) -> M_Types] :
          w_enemies' = M_SpawnWave(w_enemies, w_wave, types)
    /\ w_done' = TRUE
    /\ UNCHANGED w_wave
    /\ UNCHANGED notW

WInit ==
    /\ w_wave = 1
    /\ w_enemies = <<>>
    /\ w_done = FALSE

(***************************************************************************)
(* game3.py: configuration                                                 *)
(***************************************************************************)
MAP_W == 40
MAP_H == 24
ROOM_MIN == 5
ROOM_MAX == 12
MAX_ROOMS == 10
TILE == 48

(***************************************************************************)
(* game3.py: RectRoom                                                      *)
(***************************************************************************)
RectRoom(x, y, w, h) == [x |-> x, y |-> y, w |-> w, h |-> h]

Center(r) == <<r.x + (r.w \div 2), r.y + (r.h \div 2)>>

Intersects(a, b) ==
    /\ a.x <= b.x + b.w
    /\ a.x + a.w >= b.x
    /\ a.y <= b.y + b.h
    /\ a.y + a.h >= b.y

\* the cells range(x, x+w) x range(y, y+h) of a room
RoomCells(r) == {<<i, j>> : i \in r.x .. (r.x + r.w - 1), j \in r.y .. (r.y + r.h - 1)}

InMap(c) == c[1] >= 0 /\ c[1] < MAP_W /\ c[2] >= 0 /\ c[2] < MAP_H

(***************************************************************************)
(* game3.py: Dungeon.create_room, create_h_tunnel, create_v_tunnel: the    *)
(* cells each one turns into floor                                         *)
(***************************************************************************)
CreateRoom(r) == {c \in RoomCells(r) : InMap(c)}

CreateHTunnel(x1, x2, y) == {c \in {<<x, y>> : x \in Min(x1, x2) .. Max(x1, x2)} : InMap(c)}

CreateVTunnel(y1, y2, x) == {c \in {<<x, y>> : y \in Min(y1, y2) .. Max(y1, y2)} : InMap(c)}

\* a tunnel that forgets the corner: the vertical leg at the previous room's x
ConnectDetached(prev, new, coin) ==
    IF coin
    THEN CreateHTunnel(prev[1], new[1], prev[2]) \cup CreateVTunnel(prev[2], new[2], prev[1])
    ELSE CreateVTunnel(prev[2], new[2], prev[1]) \cup CreateHTunnel(prev[1], new[1], prev[2])

\* the L-shaped corridor between the previous room's centre and the new one's
Connect(prev, new, coin) ==
    IF coin
    THEN CreateHTunnel(prev[1], new[1], prev[2]) \cup CreateVTunnel(prev[2], new[2], new[1])
    ELSE CreateVTunnel(prev[2], new[2], prev[1]) \cup CreateHTunnel(prev[1], new[1], new[2])

\* a rejection test that looks at the last room only
RejectsLastOnly(new, rooms) ==
    Len(rooms) > 0 /\ Intersects(new, rooms[Len(rooms)])

\* any(new_room.intersects(r) for r in self.rooms)
Rejects(new, rooms) == \E k \in 1 .. Len(rooms) : Intersects(new, rooms[k])

\* a loop that draws again, without counting, when the candidate is rejected
NextAttemptRetry(i, rejected) == IF rejected THEN i ELSE i + 1

\* for _ in range(MAX_ROOMS): ... continue
NextAttempt(i, rejected) == i + 1

(***************************************************************************)
(* The random draws of one iteration, bounded: w, h in {ROOM_MIN,          *)
(* ROOM_MAX}, x at the two ends and the middle of randint(1, MAP_W-w-2),   *)
(* y at the low end of randint(1, MAP_H-h-2).                              *)
(***************************************************************************)
SizeDraws == {ROOM_MIN, ROOM_MAX}
XDraws(w) == {1, (1 + (MAP_W - w - 2)) \div 2, MAP_W - w - 2}
YDraws(h) == {1}

RoomDraws ==
    {RectRoom(x, y, w, h) : x \in 1 .. MAP_W, y \in 1 .. MAP_H, w \in SizeDraws, h \in SizeDraws}

Candidates == {r \in RoomDraws : r.x \in XDraws(r.w) /\ r.y \in YDraws(r.h)}

(***************************************************************************)
(* game3.py: Dungeon.generate, one iteration of its loop per step          *)
(***************************************************************************)
GenerateStep ==
    /\ variant = "dungeon"
    /\ d_pc = "generate"
    /\ d_attempt < MAX_ROOMS
    /\ \E new \in Candidates, coin \in BOOLEAN :
          LET rej == Rejects(new, d_rooms) IN
          /\ d_draws' = d_draws + 1
          /\ d_attempt' = NextAttempt(d_attempt, rej)
          /\ IF rej
             THEN /\ d_rejected' = d_rejected + 1
                  /\ UNCHANGED <<d_rooms, d_tiles>>
             ELSE /\ d_rejected' = d_rejected
                  /\ d_rooms' = Append(d_rooms, new)
                  /\ d_tiles' = d_tiles \cup CreateRoom(new) \cup
                        (IF Len(d_rooms) > 0
                         THEN Connect(Center(d_rooms[Len(d_rooms)]), Center(new), coin)
                         ELSE {})
          /\ d_pc' = IF d_attempt' >= MAX_ROOMS THEN "construct" ELSE "generate"
    /\ UNCHANGED d_enemies
    /\ UNCHANGED notD

(***************************************************************************)
(* game3.py: Game.spawn_enemies_wave.  One enemy is drawn in a room other  *)
(* than the first, on a tile randint(r.x+1, r.x+r.w-2) x                   *)
(* randint(r.y+1, r.y+r.h-2), of kind 0 (random() < 0.7) or 1.  The tile   *)
(* draws are bounded to the two ends of the ranges, taken together.        *)
(***************************************************************************)
TileDraws(r) == {<<r.x + 1, r.y + 1>>, <<r.x + r.w - 2, r.y + r.h - 2>>}

\* self.dungeon.rooms[1:]
OtherRooms(rooms) == {k \in 1 .. Len(rooms) : k > 1}

SpawnDraws(rooms) ==
    {[room |-> k, tx |-> t[1], ty |-> t[2], kind |-> kd] :
        k \in OtherRooms(rooms), t \in UNION {TileDraws(rooms[q]) : q \in 1 .. Len(rooms)},
        kd \in {0, 1}}

SpawnChoices(rooms) == {s \in SpawnDraws(rooms) : <<s.tx, s.ty>> \in TileDraws(rooms[s.room])}

\* Enemy(epos, kind) with epos = (rx*TILE + TILE/2, ry*TILE + TILE/2)
SpawnedEnemy(s) ==
    [x |-> s.tx * TILE + (TILE \div 2), y |-> s.ty * TILE + (TILE \div 2),
     kind |-> s.kind, room |-> s.room]

(***************************************************************************)
(* game3.py: Game.__init__ after Dungeon(): the player is put in the first *)
(* room and spawn_enemies_wave(3) is called; random.choice raises          *)
(* IndexError on an empty rooms[1:] and the constructor does not catch it. *)
(***************************************************************************)
InitialWave == 3

GameConstruct ==
    /\ variant = "dungeon"
    /\ d_pc = "construct"
    /\ IF OtherRooms(d_rooms) = {}
       THEN /\ d_pc' = "crashed"
            /\ UNCHANGED d_enemies
       ELSE /\ \E f \in [1 .. InitialWave -> SpawnChoices(d_rooms)] :
                  d_enemies' = [k \in 1 .. InitialWave |-> SpawnedEnemy(f[k])]
            /\ d_pc' = "playing"
    /\ UNCHANGED <<d_rooms, d_tiles, d_attempt, d_draws, d_rejected>>
    /\ UNCHANGED notD

DInit ==
    /\ d_rooms = <<>>
    /\ d_tiles = {}
    /\ d_attempt = 0
    /\ d_draws = 0
    /\ d_rejected = 0
    /\ d_pc = "generate"
    /\ d_enemies = <<>>

(***************************************************************************)
(* game3.py: the classes' constants.  Player.hp is 120: no save file has   *)
(* unlocked extra_hp.  The camera and the screen shake are not modelled.   *)
(***************************************************************************)
DASH_TIME == 180
INVINCIBLE_TIME == 900
S_PLAYER_HP == 120
S_PLAYER_SPEED == 260
S_DASH_SPEED == 720
S_PLAYER_RADIUS == 14
S_HIT_INVINCIBLE == 600
S_HIT_MARGIN == 6
S_PROJECTILE_LIFE == 2000
S_KEEP_NEAR == 160
S_KEEP_FAR == 220
S_FIRE_COOLDOWN == 1100
S_ENEMY_SHOT_DAMAGE == 14
S_GRENADE_DAMAGE == 40
S_GRENADE_PARTICLES == 18
S_KILL_PARTICLES == 12
S_PLAYER_HIT_PARTICLES == 8
S_ENEMY_HIT_PARTICLES == 6
S_CLEAR_GOLD == 25
\* the particle lives drawn: the low end of each random.uniform range
S_LONG_PARTICLE == 400
S_SHORT_PARTICLE == 200

\* bounds of the model: projectiles of the player in flight, calls of
\* Game.update in one run
MaxShotsS == 1
MaxTicksS == 2

\* self.weapons = ['sword', 'pistol', 'grenade']
S_Weapons == <<"sword", "pistol", "grenade">>

S_WeaponDamage(w) == IF w = "pistol" THEN 18 ELSE IF w = "grenade" THEN 45 ELSE 34
S_WeaponLife(w) ==
    IF w = "pistol" THEN S_PROJECTILE_LIFE ELSE IF w = "grenade" THEN 1600 ELSE 250

S_EnemyRadius(kind) == IF kind = 0 THEN 14 ELSE 20
S_EnemyMaxHp(kind) == IF kind = 0 THEN 40 ELSE 110
S_Aggro(kind) == IF kind = 0 THEN 220 ELSE 350
S_KillGold(kind) == IF kind = 0 THEN 8 ELSE 28

\* Player(pos)
S_NewPlayer == [hp |-> S_PLAYER_HP, dash_timer |-> 0, inv_timer |-> 0, gold |-> 0,
                cur_weapon |-> 1]

\* Player.update: target_speed
S_TargetSpeed(p) == IF p.dash_timer > 0 THEN S_DASH_SPEED ELSE S_PLAYER_SPEED

\* Enemy(pos, kind)
S_NewEnemy(id, kind) ==
    [id |-> id, kind |-> kind, hp |-> S_EnemyMaxHp(kind), fire_cooldown |-> 0]

\* Projectile(pos, vel, owner, dmg, life); n counts the calls of update that
\* the projectile has had in the current frame
S_NewProjectile(id, owner, dmg, life) ==
    [id |-> id, owner |-> owner, dmg |-> dmg, life |-> life, n |-> 0]

\* Projectile.update: self.life -= dt
S_ProjectileUpdate(p, dt) == [p EXCEPT !.life = @ - dt, !.n = @ + 1]

\* Enemy.update: what it does to the position
S_EnemyMove(kind, dist) ==
    IF dist < S_Aggro(kind)
    THEN IF kind = 0 THEN "towards"
         ELSE IF dist < S_KEEP_NEAR THEN "away"
         ELSE IF dist > S_KEEP_FAR THEN "towards"
         ELSE "hold"
    ELSE "none"

\* Enemy.update normalises to_player wherever it moves, unguarded
S_EnemyUpdateFails(kind, dist) ==
    S_EnemyMove(kind, dist) \in {"towards", "away"} /\ NormalizeFails(dist)

\* Game.spawn_enemies_wave, once per kind drawn
RECURSIVE S_SpawnEnemies(_, _)
S_SpawnEnemies(q, kinds) ==
    IF kinds = <<>> THEN q
    ELSE S_SpawnEnemies(Append(q, S_NewEnemy(FreshId({x.id : x \in Range(q)}), Head(kinds))),
                        Tail(kinds))

\* the draws: the kinds of a wave of n enemies (the first of either kind, the
\* others of kind 0), the size of a later wave, the distances
S_KindDraws(n) == {[k \in 1 .. n |-> IF k = 1 THEN c ELSE 0] : c \in {0, 1}}
S_WaveSizeDraws == {InitialWave, InitialWave + 3}
S_PlayerDistDraws(kind) ==
    IF kind = 0 THEN {0, S_Aggro(0) - 1, S_Aggro(0)}
    ELSE {0, S_KEEP_NEAR - 1, S_KEEP_NEAR, S_KEEP_FAR + 1, S_Aggro(1)}
S_ShotDistDraws == {S_PLAYER_RADIUS + S_HIT_MARGIN - 1, S_PLAYER_RADIUS + S_HIT_MARGIN}
S_EnemyDistDraws(kind) ==
    {S_EnemyRadius(kind) + S_HIT_MARGIN - 1, S_EnemyRadius(kind) + S_HIT_MARGIN}

S_Ids(q) == {x.id : x \in Range(q)}

S_NoLog == [step |-> "none"]

S_Live == variant = "forge" /\ s_running /\ ~s_crashed

(***************************************************************************)
(* game3.py: Game.handle_input, one event per step                         *)
(***************************************************************************)
\* pygame.QUIT
S_Quit ==
    /\ S_Live /\ s_pc = "idle"
    /\ s_running' = FALSE
    /\ UNCHANGED <<s_state, s_player, s_own, s_projectiles, s_enemies, s_particles, s_dt,
                   s_ticks, s_pc, s_todo, s_over, s_crashed, s_log,
                   s_since>>
    /\ UNCHANGED notS

\* KEYDOWN K_TAB
S_Tab ==
    /\ S_Live /\ s_pc = "idle"
    /\ s_state' = IF s_state = "playing" THEN "shop" ELSE "playing"
    /\ UNCHANGED <<s_running, s_player, s_own, s_projectiles, s_enemies, s_particles, s_dt,
                   s_ticks, s_pc, s_todo, s_over, s_crashed, s_log,
                   s_since>>
    /\ UNCHANGED notS

\* KEYDOWN K_1, K_2, K_3: Player.switch_weapon
S_SwitchWeapon ==
    /\ S_Live /\ s_pc = "idle"
    /\ \E idx \in 0 .. 2 :
          s_player' = [s_player EXCEPT !.cur_weapon = idx % Len(S_Weapons)]
    /\ UNCHANGED <<s_state, s_running, s_own, s_projectiles, s_enemies, s_particles, s_dt,
                   s_ticks, s_pc, s_todo, s_over, s_crashed, s_log,
                   s_since>>
    /\ UNCHANGED notS

\* KEYDOWN K_SPACE: Player.dash
S_Dash ==
    /\ S_Live /\ s_pc = "idle"
    /\ IF s_player.dash_timer <= 0
       THEN s_player' = [s_player EXCEPT !.dash_timer = DASH_TIME,
                                         !.inv_timer = INVINCIBLE_TIME]
       ELSE UNCHANGED s_player
    /\ s_since' = IF s_player.dash_timer <= 0 THEN [s_since EXCEPT !.dash = 0] ELSE s_since
    /\ s_log' = [step |-> "dash", before |-> s_player]
    /\ UNCHANGED <<s_state, s_running, s_own, s_projectiles, s_enemies, s_particles, s_dt,
                   s_ticks, s_pc, s_todo, s_over, s_crashed>>
    /\ UNCHANGED notS

\* MOUSEBUTTONDOWN, button 1: Player.shoot (a zero direction becomes (1, 0));
\* the projectile joins the player's own list
S_Shoot ==
    /\ S_Live /\ s_pc = "idle"
    /\ s_state = "playing"
    /\ Len(s_own) < MaxShotsS
    /\ LET w == S_Weapons[s_player.cur_weapon + 1] IN
       s_own' = Append(s_own, S_NewProjectile(FreshId(S_Ids(s_own) \cup S_Ids(s_projectiles)),
                                               "player", S_WeaponDamage(w), S_WeaponLife(w)))
    /\ UNCHANGED <<s_state, s_running, s_player, s_projectiles, s_enemies, s_particles, s_dt,
                   s_ticks, s_pc, s_todo, s_over, s_crashed, s_log,
                   s_since>>
    /\ UNCHANGED notS

(***************************************************************************)
(* game3.py: Game.update in state playing.  S_TickBegin is Player.update,  *)
(* S_EnemyStep one iteration of the loop over list(self.enemies),          *)
(* S_ProjectileStep one iteration of the loop over list(self.projectiles), *)
(* S_TickEnd the particles and the rest of Game.update.                    *)
(***************************************************************************)
\* where Game.physics goes after the loop over the enemies
S_AfterEnemies(projectiles) == IF projectiles = <<>> THEN "rest" ELSE "projectiles"

\* Player.update: the timers, then the player's own projectiles, each one
\* updated and, once its life is over, handed to the global list.  over is
\* the overlap of each of the player's live projectiles with the first enemy
\* of the list, as the distance od drawn for it says: Player.update does not
\* measure it.
S_TickBegin ==
    /\ S_Live /\ s_pc = "idle"
    /\ s_state = "playing"
    /\ s_ticks < MaxTicksS
    /\ s_ticks' = s_ticks + 1
    /\ \E dt \in DtDraws :
          LET upd == [k \in 1 .. Len(s_own) |-> S_ProjectileUpdate(s_own[k], dt)]
              gone == SelectSeq(upd, LAMBDA p : p.life <= 0)
              kept == SelectSeq(upd, LAMBDA p : ~(p.life <= 0))
              grenades == SelectSeq(gone, LAMBDA p : p.dmg >= S_GRENADE_DAMAGE)
          IN
          /\ s_dt' = dt
          /\ s_player' = [s_player EXCEPT
                             !.dash_timer = IF @ > 0 THEN @ - dt ELSE @,
                             !.inv_timer = Max(0, @ - dt)]
          /\ s_own' = kept
          /\ s_projectiles' = s_projectiles \o gone
          /\ s_particles' = s_particles
                \o Burst(S_GRENADE_PARTICLES * Len(grenades), S_LONG_PARTICLE)
          /\ \E od \in [S_Ids(kept) -> IF s_enemies = <<>> THEN {0}
                                       ELSE S_EnemyDistDraws(s_enemies[1].kind)] :
                s_over' = {[shot |-> p.id, dmg |-> p.dmg, enemy |-> s_enemies[1].id,
                            hp |-> s_enemies[1].hp] :
                           p \in {x \in Range(kept) :
                                     /\ s_enemies # <<>>
                                     /\ od[x.id] < S_EnemyRadius(s_enemies[1].kind)
                                                   + S_HIT_MARGIN}}
          /\ s_todo' = IF s_enemies = <<>>
                       THEN [k \in 1 .. Len(s_projectiles') |-> s_projectiles'[k].id]
                       ELSE [k \in 1 .. Len(s_enemies) |-> s_enemies[k].id]
          /\ s_pc' = IF s_enemies = <<>> THEN S_AfterEnemies(s_projectiles') ELSE "enemies"
          /\ s_log' = [step |-> "player", dt |-> dt, before |-> s_player,
                       target_speed |-> S_TargetSpeed(s_player)]
          /\ s_since' = [k \in DOMAIN s_since |->
                           IF s_since[k] < 0 THEN s_since[k] ELSE s_since[k] + dt]
    /\ UNCHANGED <<s_state, s_running, s_enemies, s_crashed>>
    /\ UNCHANGED notS

\* the enemy of identity id
S_Enemy(id) == CHOOSE e \in Range(s_enemies) : e.id = id

\* e.update(...), then the test e.hp <= 0 of Game.physics
S_EnemyStep ==
    /\ S_Live /\ s_pc = "enemies"
    /\ LET e == S_Enemy(Head(s_todo)) IN
       \E dist \in S_PlayerDistDraws(e.kind) :
          LET ranged == e.kind # 0 /\ dist < S_Aggro(e.kind)
              fires == ranged /\ e.fire_cooldown - s_dt <= 0
              cooled == IF fires THEN S_FIRE_COOLDOWN
                        ELSE IF ranged THEN e.fire_cooldown - s_dt
                        ELSE e.fire_cooldown
              shot == S_NewProjectile(FreshId(S_Ids(s_own) \cup S_Ids(s_projectiles)),
                                      "enemy", S_ENEMY_SHOT_DAMAGE, S_PROJECTILE_LIFE)
              dead == e.hp <= 0
          IN
          IF S_EnemyUpdateFails(e.kind, dist)
          THEN /\ s_crashed' = TRUE
               /\ s_log' = [step |-> "raise", id |-> e.id, kind |-> e.kind, dist |-> dist,
                            move |-> S_EnemyMove(e.kind, dist)]
               /\ UNCHANGED <<s_player, s_projectiles, s_enemies, s_particles, s_todo, s_pc>>
          ELSE /\ s_projectiles' = IF fires THEN Append(s_projectiles, shot)
                                   ELSE s_projectiles
               /\ s_enemies' =
                     IF dead THEN RemoveId(s_enemies, e.id)
                     ELSE [k \in 1 .. Len(s_enemies) |->
                              IF s_enemies[k].id = e.id
                              THEN [e EXCEPT !.fire_cooldown = cooled]
                              ELSE s_enemies[k]]
               /\ s_player' = IF dead THEN [s_player EXCEPT !.gold = @ + S_KillGold(e.kind)]
                              ELSE s_player
               /\ s_particles' = s_particles
                     \o (IF dead THEN Burst(S_KILL_PARTICLES, S_LONG_PARTICLE) ELSE <<>>)
               /\ s_todo' = IF Tail(s_todo) = <<>>
                            THEN [k \in 1 .. Len(s_projectiles') |-> s_projectiles'[k].id]
                            ELSE Tail(s_todo)
               /\ s_pc' = IF Tail(s_todo) = <<>> THEN S_AfterEnemies(s_projectiles')
                          ELSE "enemies"
               /\ s_log' = [step |-> "enemy", id |-> e.id, kind |-> e.kind, dist |-> dist,
                            move |-> S_EnemyMove(e.kind, dist), fires |-> fires,
                            removed |-> dead, dt |-> s_dt, cooldown |-> e.fire_cooldown]
               /\ UNCHANGED s_crashed
    /\ UNCHANGED <<s_state, s_running, s_own, s_dt, s_ticks, s_over, s_since>>
    /\ UNCHANGED notS

\* a collision test that takes every projectile for the player's
S_TargetEnemies(owner) == "enemies"

\* whom a projectile can hit: isinstance(pr.owner, Enemy) / isinstance(pr.owner, Player)
S_Target(owner) == IF owner = "enemy" THEN "player" ELSE "enemies"

\* the projectile of identity id in the global list
S_Projectile(id) == CHOOSE p \in Range(s_projectiles) : p.id = id

\* a hit test that ignores the invincibility timer
S_PlayerHitAlways(pd, inv_timer) == pd < S_PLAYER_RADIUS + S_HIT_MARGIN

\* (pr.pos - self.player.pos).length() < self.player.radius + 6
\* and self.player.inv_timer <= 0
S_PlayerHit(pd, inv_timer) == pd < S_PLAYER_RADIUS + S_HIT_MARGIN /\ inv_timer <= 0

\* pr.update(self.dt), then the expiry test and the collisions of Game.physics
S_ProjectileStep ==
    /\ S_Live /\ s_pc = "projectiles"
    /\ LET pr == S_ProjectileUpdate(S_Projectile(Head(s_todo)), s_dt)
           rest == RemoveId(s_projectiles, pr.id)
           here == [k \in 1 .. Len(s_projectiles) |->
                       IF s_projectiles[k].id = pr.id THEN pr ELSE s_projectiles[k]]
           log == [step |-> "projectile", id |-> pr.id, owner |-> pr.owner, n |-> pr.n,
                   dt |-> s_dt, before |-> pr.life + s_dt, after |-> pr.life]
       IN
       /\ IF pr.life <= 0
          THEN /\ s_projectiles' = rest
               /\ s_log' = [log EXCEPT !.step = "expired"]
               /\ UNCHANGED <<s_player, s_enemies, s_particles, s_since>>
          ELSE IF S_Target(pr.owner) = "player"
          THEN \E pd \in S_ShotDistDraws :
                  LET hit == S_PlayerHit(pd, s_player.inv_timer) IN
                  /\ s_player' = IF hit
                                 THEN [s_player EXCEPT !.hp = @ - pr.dmg,
                                                       !.inv_timer = S_HIT_INVINCIBLE]
                                 ELSE s_player
                  /\ s_projectiles' = IF hit THEN rest ELSE here
                  /\ s_particles' = s_particles
                        \o (IF hit THEN Burst(S_PLAYER_HIT_PARTICLES, S_SHORT_PARTICLE)
                            ELSE <<>>)
                  /\ s_since' = IF hit THEN [s_since EXCEPT !.hit = 0] ELSE s_since
                  /\ s_log' = log
                  /\ UNCHANGED s_enemies
          ELSE \E ed \in {f \in [S_Ids(s_enemies) ->
                                     S_EnemyDistDraws(0) \cup S_EnemyDistDraws(1)] :
                              \A e \in Range(s_enemies) :
                                 f[e.id] \in S_EnemyDistDraws(e.kind)} :
                  LET struck == {e \in Range(s_enemies) :
                                    ed[e.id] < S_EnemyRadius(e.kind) + S_HIT_MARGIN}
                  IN
                  /\ s_enemies' = [k \in 1 .. Len(s_enemies) |->
                                      IF s_enemies[k] \in struck
                                      THEN [s_enemies[k] EXCEPT !.hp = @ - pr.dmg]
                                      ELSE s_enemies[k]]
                  /\ s_projectiles' = IF struck # {} THEN rest ELSE here
                  /\ s_particles' = s_particles
                        \o Burst(S_ENEMY_HIT_PARTICLES * Cardinality(struck), S_SHORT_PARTICLE)
                  /\ s_log' = log
                  /\ UNCHANGED <<s_player, s_since>>
       /\ s_todo' = Tail(s_todo)
       /\ s_pc' = IF Tail(s_todo) = <<>> THEN "rest" ELSE "projectiles"
    /\ UNCHANGED <<s_state, s_running, s_own, s_dt, s_ticks, s_over, s_crashed>>
    /\ UNCHANGED notS

\* for p in list(self.particles): p.update(dt); remove it when life <= 0
S_UpdateParticles(q, dt) ==
    SelectSeq([k \in 1 .. Len(q) |-> q[k] - dt], LAMBDA l : ~(l <= 0))

\* the end of the frame: the update counts start again
S_FrameOver(q) == [k \in 1 .. Len(q) |-> [q[k] EXCEPT !.n = 0]]

\* the particles of Game.physics, then Game.update: a cleared room is
\* rewarded and a bigger wave spawned
S_TickEnd ==
    /\ S_Live /\ s_pc = "rest"
    /\ s_particles' = S_UpdateParticles(s_particles, s_dt)
    /\ IF s_enemies = <<>>
       THEN /\ s_player' = [s_player EXCEPT !.gold = @ + S_CLEAR_GOLD]
            /\ \E n \in S_WaveSizeDraws : \E kinds \in S_KindDraws(n) :
                  s_enemies' = S_SpawnEnemies(s_enemies, kinds)
       ELSE UNCHANGED <<s_player, s_enemies>>
    /\ s_own' = S_FrameOver(s_own)
    /\ s_projectiles' = S_FrameOver(s_projectiles)
    /\ s_pc' = "idle"
    /\ s_todo' = <<>>
    /\ s_log' = S_NoLog
    /\ UNCHANGED <<s_state, s_running, s_dt, s_ticks, s_over, s_crashed, s_since>>
    /\ UNCHANGED notS

\* the state Game.__init__ leaves, for the kinds spawn_enemies_wave(3) drew
S_Constructed(kinds) ==
    /\ s_state = "playing"
    /\ s_running = TRUE
    /\ s_player = S_NewPlayer
    /\ s_own = <<>>
    /\ s_projectiles = <<>>
    /\ s_enemies = S_SpawnEnemies(<<>>, kinds)
    /\ s_particles = <<>>
    /\ s_dt = 0
    /\ s_ticks = 0
    /\ s_pc = "idle"
    /\ s_todo = <<>>
    /\ s_over = {}
    /\ s_crashed = FALSE
    /\ s_log = S_NoLog
    /\ s_since = [hit |-> -1, dash |-> -1]

SInit == S_Constructed([k \in 1 .. InitialWave |-> 0])

\* the shots of the ranged enemy that a player of 120 hp survives, and the
\* cooldown the enemy is left with 1.0 s of aggro time after a shot
S_HITS_SURVIVED == 8
S_COOLDOWN_LEFT == 100
S_LAST_HIT == S_FIRE_COOLDOWN - S_COOLDOWN_LEFT

\* a later state of the same game: the player has stood in the aggro range of
\* the ranged enemy (the first of the wave) and has been hit by its first
\* eight shots; the last shot was 1.0 s ago, so that the projectiles and the
\* particles are gone and the invincibility of 0.6 s is over
S_Wounded(kinds) ==
    /\ kinds[1] = 1
    /\ s_state = "playing"
    /\ s_running = TRUE
    /\ s_player = [S_NewPlayer EXCEPT !.hp = @ - S_HITS_SURVIVED * S_ENEMY_SHOT_DAMAGE]
    /\ s_own = <<>>
    /\ s_projectiles = <<>>
    /\ s_enemies = [k \in 1 .. Len(kinds) |->
                       IF k = 1
                       THEN [S_SpawnEnemies(<<>>, kinds)[k] EXCEPT
                                !.fire_cooldown = S_COOLDOWN_LEFT]
                       ELSE S_SpawnEnemies(<<>>, kinds)[k]]
    /\ s_particles = <<>>
    /\ s_dt = 0
    /\ s_ticks = 0
    /\ s_pc = "idle"
    /\ s_todo = <<>>
    /\ s_over = {}
    /\ s_crashed = FALSE
    /\ s_log = S_NoLog
    /\ s_since = [hit |-> S_LAST_HIT, dash |-> -1]

SNext ==
    S_Quit \/ S_Tab \/ S_SwitchWeapon \/ S_Dash \/ S_Shoot \/ S_TickBegin \/ S_EnemyStep
    \/ S_ProjectileStep \/ S_TickEnd

(***************************************************************************)
(* game2mod.py: the enemies and the wave logic of Game.update on their     *)
(* own, over more frames than the whole game is run for.  The player, the  *)
(* bullets and the particles are left out: that a bullet strikes the first *)
(* enemy of the list in a frame is an input of the frame.                  *)
(***************************************************************************)
\* bound of the model: calls of Game.update
MaxTicksT == 8

\* Game.start (spawn_timer is not assigned), reached by K_SPACE
T_Space ==
    /\ variant = "waves" /\ t_state # "playing"
    /\ \E types \in M_TypeDraws(M_TypeChoices(1)) :
          t_enemies' = M_SpawnWave(<<>>, 1, types)
    /\ t_wave' = 1
    /\ t_state' = "playing"
    /\ t_log' = [step |-> "start", empty |-> 0, emitted |-> FALSE]
    /\ UNCHANGED <<t_spawn, t_ticks>>
    /\ UNCHANGED notT

\* KEYDOWN K_ESCAPE while playing
T_Escape ==
    /\ variant = "waves" /\ t_state = "playing"
    /\ t_state' = "menu"
    /\ t_log' = [step |-> "escape", empty |-> t_log.empty, emitted |-> t_log.emitted]
    /\ UNCHANGED <<t_enemies, t_spawn, t_wave, t_ticks>>
    /\ UNCHANGED notT

\* Game.update: the loop over the enemies, then the wave logic
T_Update ==
    /\ variant = "waves" /\ t_state = "playing"
    /\ t_ticks < MaxTicksT
    /\ t_ticks' = t_ticks + 1
    /\ \E dt \in DtDraws, hit \in BOOLEAN :
          LET struck == IF hit /\ t_enemies # <<>> THEN M_Struck(<<1>>) ELSE <<>>
              e == t_enemies[1]
              kills == IF struck = <<>> THEN 0 ELSE M_Kills(e.health, Len(struck))
              left == IF struck = <<>> THEN t_enemies
                      ELSE IF kills > 0 THEN Tail(t_enemies)
                      ELSE <<[e EXCEPT !.health = @ - M_BULLET_DAMAGE * Len(struck)]>>
                           \o Tail(t_enemies)
              due == M_WaveDue(left, t_spawn, dt)
          IN
          /\ t_spawn' = M_SpawnTimer(left, t_spawn, dt)
          /\ t_wave' = IF due THEN t_wave + 1 ELSE t_wave
          /\ IF due
             THEN \E types \in M_TypeDraws(M_TypeChoices(t_wave + 1)) :
                     t_enemies' = M_SpawnWave(left, t_wave + 1, types)
             ELSE t_enemies' = left
          /\ t_log' = [step |-> "update", dt |-> dt, alive |-> Len(left),
                       timer |-> t_spawn, wave |-> t_wave, emitted |-> due,
                       empty |-> IF left # <<>> THEN 0
                                 ELSE IF t_log.emitted THEN dt
                                 ELSE t_log.empty + dt]
    /\ UNCHANGED t_state
    /\ UNCHANGED notT

TInit ==
    /\ t_enemies = <<>>
    /\ t_spawn = 0
    /\ t_wave = 1
    /\ t_state = "menu"
    /\ t_ticks = 0
    /\ t_log = [step |-> "none", empty |-> 0, emitted |-> FALSE]

TNext == T_Space \/ T_Escape \/ T_Update

(***************************************************************************)
(* game2.py: configuration.  vel.y is kept in tenths of a pixel per        *)
(* second, pos.x and cam_x in thousandths of a pixel and stamina in        *)
(* 4000ths, so that GRAVITY * dt, vel.x * dt and dt * 0.25 are exact.  The *)
(* level's geometry is not part of the game's state here (it is the state  *)
(* of the Level section below): what the player's rectangle meets in a     *)
(* frame is an input of Game.update.                                       *)
(***************************************************************************)
R_GRAVITY == 2200
R_RUN_SPEED == 320
R_JUMP_V == -740
R_DASH_SPEED == 700
R_DASH_TIME == 180
R_MAX_DOUBLE_JUMP == 1
R_START_X == 220
R_STAMINA_FULL == 4000
R_STAMINA_MIN == 600
R_STAMINA_DASH == 1400
R_ORB_SCORE == 10
R_JUMP_PARTICLES == 12
R_DASH_PARTICLES == 16
R_ORB_PARTICLES == 10
\* the particle lives drawn: the low end of each random.uniform range
R_JUMP_LIFE == 400
R_DASH_LIFE == 200
R_ORB_LIFE == 300
R_SHAKE_LIFE == 400

\* bound of the model: calls of Game.update in one run
MaxTicksR == 2

\* clamp(a, b, c) == max(b, min(c, a))
Clamp(a, b, c) == Max(b, Min(c, a))

\* Player(Vector2(220, 320))
R_NewPlayer ==
    [x |-> R_START_X * 1000, vy |-> 0, on_ground |-> FALSE,
     double_jumps |-> R_MAX_DOUBLE_JUMP, dashing |-> FALSE, dash_timer |-> 0,
     stamina |-> R_STAMINA_FULL, score |-> 0, combo |-> 0]

\* a jump whose air jump does not use up the double jump
R_JumpFree(p) ==
    IF p.on_ground
    THEN [p EXCEPT !.vy = R_JUMP_V * 10, !.on_ground = FALSE,
                   !.double_jumps = R_MAX_DOUBLE_JUMP]
    ELSE IF p.double_jumps > 0
    THEN [p EXCEPT !.vy = R_JUMP_V * 9]
    ELSE p

\* Player.jump: the player after the call (unchanged when it returns False)
R_Jump(p) ==
    IF p.on_ground
    THEN [p EXCEPT !.vy = R_JUMP_V * 10, !.on_ground = FALSE,
                   !.double_jumps = R_MAX_DOUBLE_JUMP]
    ELSE IF p.double_jumps > 0
    THEN [p EXCEPT !.vy = R_JUMP_V * 9, !.double_jumps = @ - 1]
    ELSE p

\* Player.jump: what it returns
R_Jumped(p) == p.on_ground \/ p.double_jumps > 0

\* Player.start_dash: what it returns (R_DashedAgain is a start_dash that
\* does not test self.dashing)
R_DashedAgain(p) == p.stamina > R_STAMINA_MIN

R_Dashed(p) == p.stamina > R_STAMINA_MIN /\ ~p.dashing

\* Player.start_dash: the player after the call
R_StartDash(p) ==
    IF R_Dashed(p)
    THEN [p EXCEPT !.dashing = TRUE, !.dash_timer = R_DASH_TIME,
                   !.stamina = @ - R_STAMINA_DASH]
    ELSE p

\* Player.update
R_PlayerUpdate(p, dt) ==
    LET vy == IF ~p.on_ground THEN p.vy + (R_GRAVITY \div 100) * dt ELSE p.vy
        vx == IF p.dashing THEN R_DASH_SPEED ELSE R_RUN_SPEED
    IN
    [p EXCEPT !.vy = vy,
              !.dash_timer = IF p.dashing THEN @ - dt ELSE @,
              !.dashing = p.dashing /\ ~(p.dash_timer - dt <= 0),
              !.stamina = IF p.dashing THEN @ ELSE Clamp(@ + dt, 0, R_STAMINA_FULL),
              !.x = @ + vx * dt]

\* for p in list(self.particles): p.update(dt); remove it when life <= 0
R_UpdateParticles(q, dt) ==
    SelectSeq([k \in 1 .. Len(q) |-> q[k] - dt], LAMBDA l : ~(l <= 0))

R_NoLog == [step |-> "none"]

R_Live == variant = "runner" /\ r_running

(***************************************************************************)
(* game2.py: Game.handle_input, one event per step                         *)
(***************************************************************************)
\* a start that keeps the particles of the run before
R_StartOverParticles ==
    /\ r_player' = R_NewPlayer
    /\ r_particles' = r_particles
    /\ r_cam' = 0
    /\ r_state' = "playing"
    /\ r_paused' = FALSE
    /\ r_ticks' = 0

\* Game.start
R_Start ==
    /\ r_player' = R_NewPlayer
    /\ r_particles' = <<>>
    /\ r_cam' = 0
    /\ r_state' = "playing"
    /\ r_paused' = FALSE
    /\ r_ticks' = 0

\* pygame.QUIT
R_Quit ==
    /\ R_Live
    /\ r_running' = FALSE
    /\ r_log' = [step |-> "quit"]
    /\ UNCHANGED <<r_state, r_paused, r_player, r_particles, r_cam, r_dt, r_ticks>>
    /\ UNCHANGED notR

\* KEYDOWN K_ESCAPE
R_Escape ==
    /\ R_Live
    /\ IF r_state = "playing"
       THEN r_paused' = ~r_paused /\ UNCHANGED r_running
       ELSE r_running' = FALSE /\ UNCHANGED r_paused
    /\ r_log' = [step |-> "escape"]
    /\ UNCHANGED <<r_state, r_player, r_particles, r_cam, r_dt, r_ticks>>
    /\ UNCHANGED notR

\* KEYDOWN K_SPACE or K_w
R_Space ==
    /\ R_Live
    /\ IF r_state \in {"menu", "gameover"}
       THEN /\ R_Start
            /\ r_log' = [step |-> "start", from |-> r_state, score |-> r_player.score,
                         particles |-> Len(r_particles)]
       ELSE /\ r_player' = R_Jump(r_player)
            /\ r_particles' = r_particles
                  \o (IF R_Jumped(r_player) THEN Burst(R_JUMP_PARTICLES, R_JUMP_LIFE)
                      ELSE <<>>)
            /\ r_log' = [step |-> "jump", jumped |-> R_Jumped(r_player),
                         paused |-> r_paused]
            /\ UNCHANGED <<r_state, r_paused, r_cam, r_ticks>>
    /\ UNCHANGED <<r_running, r_dt>>
    /\ UNCHANGED notR

\* KEYDOWN K_LSHIFT
R_Shift ==
    /\ R_Live
    /\ r_state = "playing"
    /\ r_player' = R_StartDash(r_player)
    /\ r_particles' = r_particles
          \o (IF R_Dashed(r_player) THEN Burst(R_DASH_PARTICLES, R_DASH_LIFE) ELSE <<>>)
    /\ r_log' = [step |-> "dash", dashed |-> R_Dashed(r_player), paused |-> r_paused]
    /\ UNCHANGED <<r_state, r_paused, r_running, r_cam, r_dt, r_ticks>>
    /\ UNCHANGED notR

(***************************************************************************)
(* game2.py: Game.update, as Game.run calls it.  land says that the        *)
(* player's rectangle overlaps a platform whose top its bottom edge was at *)
(* most 6 px below before the frame's motion, hit that it overlaps an      *)
(* obstacle, picks how many orbs are within 44 px, shake that              *)
(* random.random() < 0.01.                                                 *)
(***************************************************************************)
\* an obstacle that sends the game back to the menu
R_CollidedToMenu(hit, state) == IF hit THEN "menu" ELSE state

\* for o in list(self.level.obstacles): if pr.colliderect(o.rect()):
\* self.state = 'gameover'
R_Collided(hit, state) == IF hit THEN "gameover" ELSE state

R_Update ==
    /\ R_Live
    /\ r_state = "playing" /\ ~r_paused
    /\ r_ticks < MaxTicksR
    /\ r_ticks' = r_ticks + 1
    /\ \E dt \in DtDraws, land \in BOOLEAN, hit \in BOOLEAN, picks \in 0 .. 1,
          shake \in BOOLEAN :
          LET moved == R_PlayerUpdate(r_player, dt)
              lands == land /\ moved.vy > 0
              stood == IF lands
                       THEN [moved EXCEPT !.vy = 0, !.on_ground = TRUE,
                                          !.double_jumps = R_MAX_DOUBLE_JUMP]
                       ELSE [moved EXCEPT !.on_ground = FALSE]
              after == [stood EXCEPT !.score = @ + R_ORB_SCORE * picks, !.combo = @ + picks]
          IN
          /\ r_dt' = dt
          /\ r_player' = after
          /\ r_cam' = moved.x - R_START_X * 1000
          /\ r_state' = R_Collided(hit, r_state)
          /\ r_particles' =
                R_UpdateParticles(r_particles \o Burst(R_ORB_PARTICLES * picks, R_ORB_LIFE), dt)
                \o (IF after.combo > 0 /\ shake THEN <<R_SHAKE_LIFE>> ELSE <<>>)
          /\ r_log' = [step |-> "update", dt |-> dt, landed |-> lands]
    /\ UNCHANGED <<r_paused, r_running>>
    /\ UNCHANGED notR

RInit ==
    /\ r_state = "menu"
    /\ r_paused = FALSE
    /\ r_running = TRUE
    /\ r_player = R_NewPlayer
    /\ r_particles = <<>>
    /\ r_cam = 0
    /\ r_dt = 0
    /\ r_ticks = 0
    /\ r_log = R_NoLog

RNext == R_Quit \/ R_Escape \/ R_Space \/ R_Shift \/ R_Update

(***************************************************************************)
(* game2.py: Level.  Positions are whole pixels (an obstacle's pos.x, half *)
(* a width further, is kept doubled); difficulty = player_x / 1200.0 is    *)
(* kept in 1200ths, which is player_x.  The y of obstacles and orbs is     *)
(* left out.  A frame is Game.update's use of the level: the player moves, *)
(* Level.update(player.pos.x) runs one loop iteration per step, then       *)
(* Level.cleanup(cam_x).                                                   *)
(***************************************************************************)
L_LOOKAHEAD == 1600
L_MARGIN == 400
L_GAP_BASE == 180
L_GAP_MIN == 100
L_GAP_MAX == 380
L_WIDTH_BASE == 120
L_WIDTH_MIN == 80
L_WIDTH_MAX == 340
L_HEIGHT_BASE == 360
L_HEIGHT_MIN == 220
L_HEIGHT_MAX == 460
L_ORB_INSET == 40
L_DIFFICULTY_SPAN == 1200

\* bound of the model: frames run
MaxFramesL == 3

\* Platform(x, y, w)
L_Platform(x, y, w) == [x |-> x, y |-> y, w |-> w]

\* Level.add_platform: the level's platforms and frontier after the call
L_AddPlatform(lv, x, y, w) ==
    [platforms |-> Append(lv.platforms, L_Platform(x, y, w)),
     farthest_x |-> Max(lv.farthest_x, x + w)]

\* Level.reset: the starting ground, then for i in range(6) a platform
RECURSIVE L_InitialPlatforms(_, _)
L_InitialPlatforms(lv, i) ==
    IF i = 6 THEN lv
    ELSE L_InitialPlatforms(L_AddPlatform(lv, 600 + 300 * i, 380 - i * 20, 220), i + 1)

L_Reset ==
    L_InitialPlatforms(L_AddPlatform([platforms |-> <<>>, farthest_x |-> -100],
                                     -200, 460, 1400), 0)

\* int(self.difficulty * k) for difficulty >= 0
L_Ramp(difficulty, k) == (difficulty * k) \div L_DIFFICULTY_SPAN

\* the gap, width and height of the next platform for the randint draws
\* (L_GapEasing is a gap that grows with the difficulty, L_WidthUnclamped a
\* width that is not clamped to 80 .. 340)
L_GapEasing(difficulty, r) ==
    Clamp(L_GAP_BASE + r + L_Ramp(difficulty, 60), L_GAP_MIN, L_GAP_MAX)

L_Gap(difficulty, r) == Clamp(L_GAP_BASE + r - L_Ramp(difficulty, 60), L_GAP_MIN, L_GAP_MAX)
L_WidthUnclamped(difficulty, r) == L_WIDTH_BASE + r - L_Ramp(difficulty, 30)

L_Width(difficulty, r) ==
    Clamp(L_WIDTH_BASE + r - L_Ramp(difficulty, 30), L_WIDTH_MIN, L_WIDTH_MAX)
L_Height(difficulty, r) ==
    Clamp(L_HEIGHT_BASE - L_Ramp(difficulty, 80) + r, L_HEIGHT_MIN, L_HEIGHT_MAX)

\* random.random() < 0.45 + self.difficulty * 0.25, for a draw u in thousandths
L_ObstacleDrawn(difficulty, u) ==
    u * L_DIFFICULTY_SPAN < 450 * L_DIFFICULTY_SPAN + difficulty * 250

\* random.random() < 0.6
L_OrbDrawn(u) == u < 600

\* while self.farthest_x < player_x + 1600
L_Behind(farthest, player_x) == farthest < player_x + L_LOOKAHEAD

\* a cleanup that keeps what starts right of the bound
L_KeepsFromLeftEdge(p, bound) == p.x > bound

\* Level.cleanup: p.x + p.w > left_bound
L_Keeps(p, bound) == p.x + p.w > bound

\* the draws of a call of Level.update: the randint of the gap, the width,
\* the height, the two random.random() in thousandths, and whether the
\* orb's offset is the low or the high end of 40 .. next_w - 40
L_Draws ==
    {[gap |-> -40, w |-> -30, h |-> -70, obstacle |-> 0, orb |-> 0, high |-> FALSE],
     [gap |-> 60, w |-> 60, h |-> 70, obstacle |-> 999, orb |-> 999, high |-> FALSE],
     [gap |-> -40, w |-> 60, h |-> 70, obstacle |-> 0, orb |-> 0, high |-> TRUE],
     [gap |-> 60, w |-> -30, h |-> -70, obstacle |-> 999, orb |-> 0, high |-> FALSE]}

\* the frame times drawn for the level: a short frame, a frame held up for
\* more than a second, and one held up for eight seconds
L_DtDraws == {250, 1200, 8000}

\* vel.x * dt for the frame times drawn, running or dashing
L_MoveDraws ==
    {(R_RUN_SPEED * dt) \div 1000 : dt \in L_DtDraws} \cup {(R_DASH_SPEED * 250) \div 1000}

L_NoLog == [step |-> "none"]

\* Game.update: player.update, cam_x, and the start of Level.update
L_Frame ==
    /\ variant = "level" /\ l_pc = "idle"
    /\ l_frames < MaxFramesL
    /\ l_frames' = l_frames + 1
    /\ \E move \in L_MoveDraws, draw \in L_Draws :
          /\ l_player' = l_player + move
          /\ l_cam' = l_player + move - R_START_X
          /\ l_difficulty' = l_player + move
          /\ l_draw' = draw
          /\ l_pc' = IF L_Behind(l_farthest, l_player + move) THEN "update" ELSE "cleanup"
          /\ l_log' = [step |-> "call", player |-> l_player + move, from |-> l_farthest,
                       before |-> l_farthest, after |-> l_farthest, n |-> 0]
    /\ UNCHANGED <<l_platforms, l_obstacles, l_orbs, l_farthest>>
    /\ UNCHANGED notL

\* Level.update: one iteration of the loop
L_UpdateStep ==
    /\ variant = "level" /\ l_pc = "update"
    /\ LET gap == L_Gap(l_difficulty, l_draw.gap)
           next_w == L_Width(l_difficulty, l_draw.w)
           next_h == L_Height(l_difficulty, l_draw.h)
           added == L_AddPlatform([platforms |-> l_platforms, farthest_x |-> l_farthest],
                                  l_farthest + gap, next_h, next_w)
           lo == L_ORB_INSET
           hi == next_w - L_ORB_INSET
           offset == IF l_draw.high THEN hi ELSE lo
       IN
       /\ l_platforms' = added.platforms
       /\ l_farthest' = added.farthest_x
       /\ l_obstacles' =
             IF L_ObstacleDrawn(l_difficulty, l_draw.obstacle)
             THEN Append(l_obstacles, [x2 |-> 2 * (added.farthest_x + gap) + next_w])
             ELSE l_obstacles
       /\ l_orbs' =
             IF L_OrbDrawn(l_draw.orb) /\ lo <= hi
             THEN Append(l_orbs, [x |-> added.farthest_x + gap + offset])
             ELSE l_orbs
       /\ l_pc' = IF L_OrbDrawn(l_draw.orb) /\ lo > hi THEN "raised"
                  ELSE IF L_Behind(added.farthest_x, l_player) THEN "update"
                  ELSE "cleanup"
       /\ l_log' = [step |-> "generate", player |-> l_player, from |-> l_log.from,
                    before |-> l_farthest, after |-> added.farthest_x,
                    n |-> l_log.n + 1, x |-> l_farthest + gap, w |-> next_w, y |-> next_h,
                    gap |-> gap]
    /\ UNCHANGED <<l_difficulty, l_player, l_cam, l_draw, l_frames>>
    /\ UNCHANGED notL

\* Level.cleanup(cam_x)
L_Cleanup ==
    /\ variant = "level" /\ l_pc = "cleanup"
    /\ LET left_bound == l_cam - L_MARGIN IN
       /\ l_platforms' = SelectSeq(l_platforms, LAMBDA p : L_Keeps(p, left_bound))
       /\ l_obstacles' = SelectSeq(l_obstacles, LAMBDA o : o.x2 > 2 * left_bound)
       /\ l_orbs' = SelectSeq(l_orbs, LAMBDA o : o.x > left_bound)
       /\ l_log' = [step |-> "cleanup", bound |-> left_bound, player |-> l_player,
                    from |-> l_log.from, before |-> l_farthest, after |-> l_farthest,
                    n |-> l_log.n, platforms |-> l_platforms, obstacles |-> l_obstacles,
                    orbs |-> l_orbs]
    /\ l_pc' = "idle"
    /\ UNCHANGED <<l_farthest, l_difficulty, l_player, l_cam, l_draw, l_frames>>
    /\ UNCHANGED notL

\* Game.start between two frames (K_SPACE or K_w once the game is over):
\* Player(Vector2(220, 320)), Level(), cam_x = 0
L_Start ==
    /\ variant = "level" /\ l_pc = "idle"
    /\ l_frames > 0
    /\ l_platforms' = L_Reset.platforms
    /\ l_obstacles' = <<>>
    /\ l_orbs' = <<>>
    /\ l_farthest' = L_Reset.farthest_x
    /\ l_difficulty' = 0
    /\ l_player' = R_START_X
    /\ l_cam' = 0
    /\ l_frames' = 0
    /\ l_log' = [step |-> "start", platforms |-> Len(l_platforms), frames |-> l_frames]
    /\ UNCHANGED <<l_pc, l_draw>>
    /\ UNCHANGED notL

\* Game.__init__ / Game.start: Player(Vector2(220, 320)), Level(), cam_x = 0
LInit ==
    /\ l_platforms = L_Reset.platforms
    /\ l_obstacles = <<>>
    /\ l_orbs = <<>>
    /\ l_farthest = L_Reset.farthest_x
    /\ l_difficulty = 0
    /\ l_player = R_START_X
    /\ l_cam = 0
    /\ l_pc = "idle"
    /\ l_draw = CHOOSE d \in L_Draws : TRUE
    /\ l_frames = 0
    /\ l_log = L_NoLog

LNext == L_Frame \/ L_UpdateStep \/ L_Cleanup \/ L_Start

(***************************************************************************)
(* game2.py: the player over the platforms that Level.reset lays out, with *)
(* the vertical motion and the rectangles of the collision test.  pos.y    *)
(* is kept in 10000ths of a pixel (vel.y, in tenths of a pixel per second, *)
(* times dt in ms), pos.x in thousandths.  Within the frames run here the  *)
(* player stays left of x = 2420, where the first generated platform and   *)
(* obstacle can be, and Level.cleanup removes nothing the player can       *)
(* reach: the platforms met are those of Level.reset, and no obstacle or   *)
(* orb exists.  The particles are left out.                                *)
(***************************************************************************)
R_START_Y == 320
R_PLAYER_WIDTH == 44
R_PLAYER_HEIGHT == 56
R_LAND_SLACK == 6
L_PLATFORM_H == 24

\* bounds of the model: calls of Game.update, and key events per frame
MaxTicksH == 7
MaxEventsH == 1

\* the frame times drawn: 50 ms and 100 ms
H_DtDraws == {50, 100}

\* int(v) of a value kept in units of 1/unit
Trunc(v, unit) == IF v >= 0 THEN v \div unit ELSE -((-v) \div unit)

\* Player(Vector2(220, 320))
H_NewPlayer ==
    [f \in DOMAIN R_NewPlayer \cup {"y"} |->
        IF f = "y" THEN R_START_Y * 10000 ELSE R_NewPlayer[f]]

\* Player.update, with self.pos += self.vel * dt for pos.y too
H_PlayerUpdate(p, dt) ==
    LET q == R_PlayerUpdate(p, dt) IN [q EXCEPT !.y = @ + q.vy * dt]

\* Player.rect: pygame.Rect(pos.x - width/2, pos.y - height, width, height),
\* whose coordinates are truncated to integers
H_PlayerRect(p) ==
    [x |-> Trunc(p.x - (R_PLAYER_WIDTH \div 2) * 1000, 1000),
     y |-> Trunc(p.y - R_PLAYER_HEIGHT * 10000, 10000),
     w |-> R_PLAYER_WIDTH, h |-> R_PLAYER_HEIGHT]

\* Platform.rect
H_PlatformRect(p) == [x |-> p.x, y |-> p.y, w |-> p.w, h |-> L_PLATFORM_H]

\* pygame.Rect.colliderect
Colliderect(a, b) ==
    /\ a.x < b.x + b.w /\ a.x + a.w > b.x
    /\ a.y < b.y + b.h /\ a.y + a.h > b.y

\* a test that resolves an overlap whichever way the player moves
H_ResolvesAlways(p, pr, r, dt) == Colliderect(pr, r)

\* the test of the platform loop: the rectangles overlap, the player falls
\* and pr.bottom - vel.y * dt <= r.top + 6
H_Resolves(p, pr, r, dt) ==
    /\ Colliderect(pr, r)
    /\ p.vy > 0
    /\ (pr.y + pr.h) * 10000 - p.vy * dt <= (r.y + R_LAND_SLACK) * 10000

\* for p in self.level.platforms: the player after the loop; pr is the
\* rectangle taken before the loop, vel.y the player's current one
RECURSIVE H_Collide(_, _, _, _)
H_Collide(p, pr, todo, dt) ==
    IF todo = <<>> THEN p
    ELSE LET r == H_PlatformRect(Head(todo)) IN
         H_Collide(IF H_Resolves(p, pr, r, dt)
                   THEN [p EXCEPT !.y = r.y * 10000, !.vy = 0, !.on_ground = TRUE,
                                  !.double_jumps = R_MAX_DOUBLE_JUMP]
                   ELSE p,
                   pr, Tail(todo), dt)

\* the platforms whose rectangle overlaps pr
H_Overlapped(pr) ==
    SelectSeq(L_Reset.platforms, LAMBDA q : Colliderect(pr, H_PlatformRect(q)))

\* KEYDOWN K_SPACE or K_w while playing
H_Space ==
    /\ variant = "hop"
    /\ h_events < MaxEventsH
    /\ h_events' = h_events + 1
    /\ h_player' = R_Jump(h_player)
    /\ h_log' = [step |-> "jump", jumped |-> R_Jumped(h_player), before |-> h_player,
                 dash_ms |-> h_log.dash_ms,
                 air_jumps |-> h_log.air_jumps
                    + (IF R_Jumped(h_player) /\ ~h_player.on_ground THEN 1 ELSE 0)]
    /\ UNCHANGED <<h_dt, h_ticks>>
    /\ UNCHANGED notH

\* KEYDOWN K_LSHIFT while playing
H_Shift ==
    /\ variant = "hop"
    /\ h_events < MaxEventsH
    /\ h_events' = h_events + 1
    /\ h_player' = R_StartDash(h_player)
    /\ h_log' = [step |-> "dash", dashed |-> R_Dashed(h_player), before |-> h_player,
                 dash_ms |-> IF R_Dashed(h_player) THEN 0 ELSE h_log.dash_ms,
                 air_jumps |-> h_log.air_jumps]
    /\ UNCHANGED <<h_dt, h_ticks>>
    /\ UNCHANGED notH

\* Game.update: Player.update, then the platform loop
H_Update ==
    /\ variant = "hop"
    /\ h_ticks < MaxTicksH
    /\ h_ticks' = h_ticks + 1
    /\ h_events' = 0
    /\ \E dt \in H_DtDraws :
          LET moved == H_PlayerUpdate(h_player, dt)
              pr == H_PlayerRect(moved)
              after == H_Collide([moved EXCEPT !.on_ground = FALSE], pr,
                                 L_Reset.platforms, dt)
          IN
          /\ h_dt' = dt
          /\ h_player' = after
          /\ h_log' = [step |-> "update", dt |-> dt, before |-> h_player, moved |-> moved,
                       bottom |-> pr.y + pr.h, over |-> H_Overlapped(pr),
                       dash_ms |-> h_log.dash_ms + (IF h_player.dashing THEN dt ELSE 0),
                       air_jumps |-> IF after.on_ground THEN 0 ELSE h_log.air_jumps]
    /\ UNCHANGED notH

HInit ==
    /\ h_player = H_NewPlayer
    /\ h_dt = 0
    /\ h_ticks = 0
    /\ h_events = 0
    /\ h_log = [step |-> "none", dash_ms |-> 0, air_jumps |-> 0]

HNext == H_Space \/ H_Shift \/ H_Update

(***************************************************************************)
(* The update methods of the moving objects of game.py, game2.py,          *)
(* game2mod.py and game3.py, each on its own: what one call does to the    *)
(* object's position and velocity.  dt is kept in 600ths of a second (10   *)
(* is 1/60 s), a velocity in thousandths of a pixel per second and a       *)
(* position in 600000ths of a pixel, so that pos += vel * dt is exact; a   *)
(* product with a factor below 1 is rounded down to the unit.  A vector is *)
(* a pair.  What the method reads besides the object is an input of the    *)
(* call: the direction of the keys or of the player (axis-aligned here, or *)
(* zero), whether the fast mode is on (K_LSHIFT in game.py, a running dash *)
(* in game2.py and game3.py), and the range the player is in for an enemy  *)
(* (for game2.py's Player, "near" stands for on_ground; for game2mod.py's   *)
(* Enemy, the fast mode for etype "fast").  For an object without a vel    *)
(* field, e_vel is the velocity of its last move.                          *)
(***************************************************************************)
E_SECOND == 600
E_PLAYER_SPEED_GAME == 320
E_SHIFT_PERCENT == 160
E_ENEMY_SPEED_GAME == 140
E_WANDER_PERCENT == 60
E_PLAYER_SMOOTHING == 12
E_ENEMY_SMOOTHING == 6
E_FRICTION_GAME == 98
E_FRICTION_RUNNER == 98
E_FRICTION_CYBER == 96
E_FRICTION_FORGE == 92
E_PLAYER_SPEED_CYBER == 280
E_PLAYER_SPEED_FORGE == 260
E_DASH_SPEED_FORGE == 720
E_MELEE_SPEED == 120
E_NORMAL_SPEED == 120
E_FAST_SPEED == 200
E_RANGED_SPEED == 70

\* bound of the model: calls of update on the object
MaxTicksE == 2

E_Kinds ==
    {"game.Particle", "game.Bullet", "game.Player", "game.Enemy",
     "game2.Particle", "game2.Player",
     "game2mod.Particle", "game2mod.Bullet", "game2mod.Player", "game2mod.Enemy",
     "game3.Particle", "game3.Projectile", "game3.Enemy0", "game3.Enemy1", "game3.Player"}

\* the frame times drawn: 0, 1/60 s, 1/12 s (12 * dt = 1) and 1/4 s
E_DtDraws == {0, 10, 50, 150}

\* the directions drawn: none, right, left, down
E_DirDraws == {<<0, 0>>, <<1, 0>>, <<-1, 0>>, <<0, 1>>}

\* the ranges drawn for an enemy's distance to the player
E_RangeDraws == {"near", "mid", "far", "out"}

\* the velocities drawn for a new object, in px/s
E_VelDraws == {<<0, 0>>, <<125, -250>>}

VAdd(a, b) == <<a[1] + b[1], a[2] + b[2]>>
VSub(a, b) == <<a[1] - b[1], a[2] - b[2]>>
\* a * n / d
VScale(a, n, d) == <<(a[1] * n) \div d, (a[2] * n) \div d>>

\* a blend that is not clamped
E_BlendUnclamped(k, dt) == k * dt

\* clamp(k * dt, 0, 1), in 600ths
E_Blend(k, dt) == Max(0, Min(E_SECOND, k * dt))

\* vel += (target - vel) * clamp(k * dt, 0, 1)
E_Smooth(vel, target, k, dt) ==
    VAdd(vel, VScale(VSub(target, vel), E_Blend(k, dt), E_SECOND))

\* an integration that takes a frame for at least one unit of time
E_AdvancedOnce(pos, vel, dt) == VAdd(pos, VScale(vel, Max(dt, 1), 1))

\* pos += vel * dt
E_Advanced(pos, vel, dt) == VAdd(pos, VScale(vel, dt, 1))

\* the target velocity of a Player.update with exponential smoothing
E_PlayerTarget(kind, dir, fast) ==
    IF kind = "game.Player"
    THEN VScale(dir, E_PLAYER_SPEED_GAME * 10 * (IF fast THEN E_SHIFT_PERCENT ELSE 100), 1)
    ELSE VScale(dir, 1000 * (IF fast THEN E_DASH_SPEED_FORGE ELSE E_PLAYER_SPEED_FORGE), 1)

\* the velocity an enemy or a player without smoothing moves with
E_Pace(kind, dir, fast, range) ==
    IF kind = "game2mod.Player" THEN VScale(dir, 1000 * E_PLAYER_SPEED_CYBER, 1)
    ELSE IF kind = "game2mod.Enemy"
    THEN VScale(dir, 1000 * (IF fast THEN E_FAST_SPEED ELSE E_NORMAL_SPEED), 1)
    ELSE IF kind = "game3.Enemy0"
    THEN (IF range = "out" THEN <<0, 0>> ELSE VScale(dir, 1000 * E_MELEE_SPEED, 1))
    ELSE IF range = "near" THEN VScale(dir, -1000 * E_RANGED_SPEED, 1)
    ELSE IF range = "far" THEN VScale(dir, 1000 * E_RANGED_SPEED, 1)
    ELSE <<0, 0>>

\* the call raises: normalize() of a zero vector
E_Raises(kind, dir, range) ==
    /\ dir = <<0, 0>>
    /\ \/ kind = "game.Enemy" /\ range = "near"
       \/ kind = "game3.Enemy0" /\ range # "out"
       \/ kind = "game3.Enemy1" /\ range # "out"

\* the velocity after the call, before any friction
E_Velocity(kind, vel, dt, dir, fast, range) ==
    IF kind \in {"game.Player", "game3.Player"}
    THEN E_Smooth(vel, E_PlayerTarget(kind, dir, fast), E_PLAYER_SMOOTHING, dt)
    ELSE IF kind = "game.Enemy"
    THEN E_Smooth(vel,
                  VScale(dir, 10 * E_ENEMY_SPEED_GAME
                                 * (IF range = "near" THEN 100 ELSE E_WANDER_PERCENT), 1),
                  E_ENEMY_SMOOTHING, dt)
    ELSE IF kind = "game2.Player"
    THEN <<1000 * (IF fast THEN R_DASH_SPEED ELSE R_RUN_SPEED),
           IF range = "near" THEN vel[2]
           ELSE vel[2] + (1000 * R_GRAVITY * dt) \div E_SECOND>>
    ELSE IF kind \in {"game2mod.Player", "game2mod.Enemy", "game3.Enemy0", "game3.Enemy1"}
    THEN E_Pace(kind, dir, fast, range)
    ELSE vel

\* self.vel *= 0.98 (0.96, 0.92) of the particles
E_Friction(kind, vel) ==
    IF kind = "game.Particle" THEN VScale(vel, E_FRICTION_GAME, 100)
    ELSE IF kind = "game2.Particle" THEN VScale(vel, E_FRICTION_RUNNER, 100)
    ELSE IF kind = "game2mod.Particle" THEN VScale(vel, E_FRICTION_CYBER, 100)
    ELSE IF kind = "game3.Particle" THEN VScale(vel, E_FRICTION_FORGE, 100)
    ELSE vel

\* update(dt) of an object of the kind
E_Update ==
    /\ variant = "moves"
    /\ e_ticks < MaxTicksE
    /\ e_ticks' = e_ticks + 1
    /\ \E dt \in E_DtDraws, dir \in E_DirDraws, fast \in BOOLEAN, range \in E_RangeDraws :
          IF E_Raises(e_kind, dir, range)
          THEN /\ e_log' = [step |-> "raise", dt |-> dt, pos |-> e_pos, vel |-> e_vel,
                            target |-> <<0, 0>>]
               /\ UNCHANGED <<e_pos, e_vel>>
          ELSE LET vel == E_Velocity(e_kind, e_vel, dt, dir, fast, range) IN
               /\ e_pos' = E_Advanced(e_pos, vel, dt)
               /\ e_vel' = E_Friction(e_kind, vel)
               /\ e_log' = [step |-> "update", dt |-> dt, pos |-> e_pos, vel |-> e_vel,
                            target |-> IF e_kind \in {"game.Player", "game3.Player"}
                                       THEN E_PlayerTarget(e_kind, dir, fast)
                                       ELSE <<0, 0>>]
    /\ UNCHANGED e_kind
    /\ UNCHANGED notE

\* an object of any kind, at the origin
EInit ==
    /\ e_kind \in E_Kinds
    /\ e_pos = <<0, 0>>
    /\ e_vel \in {VScale(v, 1000, 1) : v \in E_VelDraws}
    /\ e_ticks = 0
    /\ e_log = [step |-> "none"]

\* the object of a run of another program
EIdle == EInit /\ e_kind = "game.Particle" /\ e_vel = <<0, 0>>

ENext == E_Update

(***************************************************************************)
(* tictac.py: the handlers of the nine board buttons and of the reset      *)
(* button.  messagebox.showinfo is modal: it returns when the dialog is    *)
(* closed, and no button of the window is served before it has returned,   *)
(* so that a handler is one step.                                          *)
(***************************************************************************)
B_Cells == 0 .. 8

\* win_patterns, in the order check_winner tries them
B_WinPatterns ==
    << <<0, 1, 2>>, <<3, 4, 5>>, <<6, 7, 8>>,
       <<0, 3, 6>>, <<1, 4, 7>>, <<2, 5, 8>>,
       <<0, 4, 8>>, <<2, 4, 6>> >>

\* self.board[a] == self.board[b] == self.board[c] != ""
B_Complete(board, pattern) ==
    /\ board[pattern[1]] = board[pattern[2]]
    /\ board[pattern[2]] = board[pattern[3]]
    /\ board[pattern[3]] # ""

\* a check_winner that tries the rows only
B_CheckWinnerRows(board) == \E k \in 1 .. 3 : B_Complete(board, B_WinPatterns[k])

\* check_winner: what it returns
B_CheckWinner(board) == \E k \in 1 .. Len(B_WinPatterns) : B_Complete(board, B_WinPatterns[k])

\* check_winner: the buttons it highlights, those of the first complete pattern
B_Highlight(board) ==
    IF B_CheckWinner(board)
    THEN LET k == CHOOSE n \in 1 .. Len(B_WinPatterns) :
                     /\ B_Complete(board, B_WinPatterns[n])
                     /\ \A m \in 1 .. n - 1 : ~B_Complete(board, B_WinPatterns[m])
         IN {B_WinPatterns[k][1], B_WinPatterns[k][2], B_WinPatterns[k][3]}
    ELSE {}

\* a change of turn that leaves the turn with the same player
B_NextPlayerSame(player) == player

\* "O" if self.current_player == "X" else "X"
B_NextPlayer(player) == IF player = "X" THEN "O" ELSE "X"

\* on_click(index)
B_OnClick ==
    /\ variant = "board"
    /\ \E index \in B_Cells :
          LET free == b_board[index] = ""
              open == free /\ ~B_CheckWinner(b_board)
              board == [b_board EXCEPT ![index] = b_current]
          IN
          /\ b_log' = [step |-> "click", index |-> index, placed |-> open]
          /\ IF open
             THEN /\ b_board' = board
                  /\ b_text' = [b_text EXCEPT ![index] = b_current]
                  /\ b_lit' = b_lit \cup B_Highlight(board)
                  /\ IF B_CheckWinner(board)
                     THEN /\ b_status' = [kind |-> "wins", player |-> b_current]
                          /\ UNCHANGED b_current
                     ELSE IF \A c \in B_Cells : board[c] # ""
                     THEN /\ b_status' = [kind |-> "draw", player |-> b_current]
                          /\ UNCHANGED b_current
                     ELSE /\ b_current' = B_NextPlayer(b_current)
                          /\ b_status' = [kind |-> "turn", player |-> B_NextPlayer(b_current)]
             ELSE /\ b_lit' = IF free THEN b_lit \cup B_Highlight(b_board) ELSE b_lit
                  /\ UNCHANGED <<b_current, b_board, b_text, b_status>>
    /\ UNCHANGED notB

\* reset_game
B_ResetGame ==
    /\ variant = "board"
    /\ b_current' = "X"
    /\ b_board' = [c \in B_Cells |-> ""]
    /\ b_text' = [c \in B_Cells |-> ""]
    /\ b_lit' = {}
    /\ b_status' = [kind |-> "turn", player |-> "X"]
    /\ b_log' = [step |-> "reset"]
    /\ UNCHANGED notB

\* TicTacToe.__init__
BInit ==
    /\ b_current = "X"
    /\ b_board = [c \in B_Cells |-> ""]
    /\ b_text = [c \in B_Cells |-> ""]
    /\ b_lit = {}
    /\ b_status = [kind |-> "turn", player |-> "X"]
    /\ b_log = [step |-> "none"]

BNext == B_OnClick \/ B_ResetGame

(***************************************************************************)
(* patient.py: the endpoints add_driver and request_ambulance.  They are   *)
(* plain functions, which the server runs on the threads of a pool, each   *)
(* call with a Session of its own (get_db).  The tables are the committed  *)
(* rows.  A call of request_ambulance takes three steps: the query of the  *)
(* available drivers with the choice of the nearest, the changes it makes  *)
(* in its Session (db.add, is_available = False), and db.commit(), which   *)
(* writes the new row of requests and updates the driver's row by its      *)
(* primary key.  The distance of each driver from the pickup point is an   *)
(* input of the call.                                                      *)
(***************************************************************************)
\* bounds of the model: rows of drivers, and calls of request_ambulance
MaxDriversP == 2
MaxCallsP == 3

P_Calls == 1 .. MaxCallsP
P_DistDraws == {1, 2}

\* db.query(Driver).filter(Driver.is_available==True).all(): the ids, in row order
P_Available(drivers) ==
    LET q == SelectSeq(drivers, LAMBDA r : r.is_available) IN [k \in 1 .. Len(q) |-> q[k].id]

\* min(drivers, key=...): the first of the drivers at the least distance
P_Nearest(seen, dist) ==
    LET k == CHOOSE n \in 1 .. Len(seen) :
                /\ \A m \in 1 .. Len(seen) : dist[seen[n]] <= dist[seen[m]]
                /\ \A m \in 1 .. n - 1 : dist[seen[m]] > dist[seen[n]]
    IN seen[k]

P_NoCall == [pc |-> "idle", seen |-> <<>>, nearest |-> 0, reply |-> "none"]

\* add_driver
P_AddDriver ==
    /\ variant = "dispatch"
    /\ Len(p_drivers) < MaxDriversP
    /\ p_drivers' = Append(p_drivers, [id |-> Len(p_drivers) + 1, is_available |-> TRUE])
    /\ UNCHANGED <<p_requests, p_calls>>
    /\ UNCHANGED notP

\* request_ambulance: the query, the test 'if not drivers' and min(...)
P_Query ==
    /\ variant = "dispatch"
    /\ \E c \in P_Calls :
          /\ p_calls[c].pc = "idle"
          /\ LET seen == P_Available(p_drivers) IN
             IF seen = <<>>
             THEN p_calls' = [p_calls EXCEPT ![c] = [pc |-> "done", seen |-> seen,
                                                     nearest |-> 0, reply |-> "error"]]
             ELSE \E dist \in [Range(seen) -> P_DistDraws] :
                     p_calls' = [p_calls EXCEPT ![c] = [pc |-> "read", seen |-> seen,
                                                        nearest |-> P_Nearest(seen, dist),
                                                        reply |-> "none"]]
    /\ UNCHANGED <<p_drivers, p_requests>>
    /\ UNCHANGED notP

\* request_ambulance: db.add(ambulance_request); nearest_driver.is_available = False
P_Add ==
    /\ variant = "dispatch"
    /\ \E c \in P_Calls :
          /\ p_calls[c].pc = "read"
          /\ p_calls' = [p_calls EXCEPT ![c].pc = "added"]
    /\ UNCHANGED <<p_drivers, p_requests>>
    /\ UNCHANGED notP

\* request_ambulance: db.commit() and the reply
P_Commit ==
    /\ variant = "dispatch"
    /\ \E c \in P_Calls :
          /\ p_calls[c].pc = "added"
          /\ p_requests' = Append(p_requests,
                                  [id |-> Len(p_requests) + 1, user_id |-> c,
                                   driver_id |-> p_calls[c].nearest, status |-> "enroute"])
          /\ p_drivers' = [k \in 1 .. Len(p_drivers) |->
                              IF p_drivers[k].id = p_calls[c].nearest
                              THEN [p_drivers[k] EXCEPT !.is_available = FALSE]
                              ELSE p_drivers[k]]
          /\ p_calls' = [p_calls EXCEPT ![c].pc = "done", ![c].reply = "dispatched"]
    /\ UNCHANGED notP

\* the tables as create_all makes them, and no call made
PInit ==
    /\ p_drivers = <<>>
    /\ p_requests = <<>>
    /\ p_calls = [c \in P_Calls |-> P_NoCall]

PNext == P_AddDriver \/ P_Query \/ P_Add \/ P_Commit

(***************************************************************************)
(* The specifications: one per program or unit, one for the two arena      *)
(* games and one for the four games                                        *)
(***************************************************************************)
\* the programs that do not run stay as constructed
Idle(v) ==
    /\ (v # "game" => AInit)
    /\ (v # "cyber" => MInit)
    /\ (v # "wave" => WInit)
    /\ (v # "dungeon" => DInit)
    /\ (v # "forge" => SInit)
    /\ (v # "waves" => TInit)
    /\ (v # "runner" => RInit)
    /\ (v # "level" => LInit)
    /\ (v # "hop" => HInit)
    /\ (v # "moves" => EIdle)
    /\ (v # "board" => BInit)
    /\ (v # "dispatch" => PInit)

GameInit == variant = "game" /\ AInit /\ Idle("game")

GameNext == ANext

SpecGame == GameInit /\ [][GameNext]_vars

CyberInit == variant = "cyber" /\ MInit /\ Idle("cyber")

CyberNext == MNext

SpecCyber == CyberInit /\ [][CyberNext]_vars

ArenasInit == variant \in {"game", "cyber"} /\ AInit /\ MInit /\ Idle("game") /\ Idle("cyber")

ArenasNext == ANext \/ MNext

SpecArenas == ArenasInit /\ [][ArenasNext]_vars

WaveInit ==
    /\ variant = "wave"
    /\ w_wave \in 1 .. MaxWave
    /\ w_enemies = <<>>
    /\ w_done = FALSE
    /\ Idle("wave")

WaveNext == W_SpawnWave

SpecWave == WaveInit /\ [][WaveNext]_vars

DungeonInit == variant = "dungeon" /\ DInit /\ Idle("dungeon")

DungeonNext == GenerateStep \/ GameConstruct

SpecDungeon == DungeonInit /\ [][DungeonNext]_vars

ForgeInit ==
    /\ variant = "forge"
    /\ \E kinds \in S_KindDraws(InitialWave) : S_Constructed(kinds)
    /\ Idle("forge")

ForgeNext == SNext

SpecForge == ForgeInit /\ [][ForgeNext]_vars

WavesInit == variant = "waves" /\ TInit /\ Idle("waves")

WavesNext == TNext

SpecWaves == WavesInit /\ [][WavesNext]_vars

RunnerInit == variant = "runner" /\ RInit /\ Idle("runner")

RunnerNext == RNext

SpecRunner == RunnerInit /\ [][RunnerNext]_vars

LevelInit == variant = "level" /\ LInit /\ Idle("level")

LevelNext == LNext

SpecLevel == LevelInit /\ [][LevelNext]_vars

HopInit == variant = "hop" /\ HInit /\ Idle("hop")

HopNext == HNext

SpecHop == HopInit /\ [][HopNext]_vars

\* a run of game.py or of game2.py (the game, or its level)
RestartsInit ==
    /\ variant \in {"game", "runner", "level"}
    /\ AInit /\ RInit /\ LInit
    /\ MInit /\ WInit /\ DInit /\ SInit /\ TInit /\ HInit /\ EIdle /\ BInit /\ PInit

RestartsNext == ANext \/ RNext \/ LNext

SpecRestarts == RestartsInit /\ [][RestartsNext]_vars

\* a run of game3.py from construction, or from the state in which the
\* player has taken eight shots
FallInit ==
    /\ variant = "forge"
    /\ \E kinds \in S_KindDraws(InitialWave) : S_Constructed(kinds) \/ S_Wounded(kinds)
    /\ Idle("forge")

FallNext == SNext

SpecFall == FallInit /\ [][FallNext]_vars

\* a run of game2mod.py from construction, or from a state of the first run
\* in which the magazine is empty or holds its last round
ReloadsInit ==
    /\ variant = "cyber"
    /\ (MInit \/ \E ammo \in M_SpentDraws : M_Spent(ammo))
    /\ Idle("cyber")

ReloadsNext == MNext

SpecReloads == ReloadsInit /\ [][ReloadsNext]_vars

BoardInit == variant = "board" /\ BInit /\ Idle("board")

BoardNext == BNext

SpecBoard == BoardInit /\ [][BoardNext]_vars

DispatchInit == variant = "dispatch" /\ PInit /\ Idle("dispatch")

DispatchNext == PNext

SpecDispatch == DispatchInit /\ [][DispatchNext]_vars

\* a run of game2.py's player or of game3.py
DashesInit ==
    /\ variant \in {"hop", "forge"}
    /\ HInit
    /\ (IF variant = "forge" THEN \E kinds \in S_KindDraws(InitialWave) : S_Constructed(kinds)
        ELSE SInit)
    /\ AInit /\ MInit /\ WInit /\ DInit /\ TInit /\ RInit /\ LInit /\ EIdle /\ BInit /\ PInit

DashesNext == HNext \/ SNext

SpecDashes == DashesInit /\ [][DashesNext]_vars

MovesInit == variant = "moves" /\ EInit /\ Idle("moves")

MovesNext == ENext

SpecMoves == MovesInit /\ [][MovesNext]_vars

\* a run of any of the four games
GamesInit ==
    /\ variant \in {"game", "runner", "cyber", "forge"}
    /\ AInit /\ RInit /\ MInit
    /\ (IF variant = "forge" THEN \E kinds \in S_KindDraws(InitialWave) : S_Constructed(kinds)
        ELSE SInit)
    /\ WInit /\ DInit /\ TInit /\ LInit /\ HInit /\ EIdle /\ BInit /\ PInit

GamesNext == ANext \/ RNext \/ MNext \/ SNext

SpecGames == GamesInit /\ [][GamesNext]_vars

(***************************************************************************)
(* Floor cells reachable from a cell by steps between 4-adjacent floor     *)
(* cells.                                                                  *)
(***************************************************************************)
Neighbours(c) == {<<c[1] + 1, c[2]>>, <<c[1] - 1, c[2]>>, <<c[1], c[2] + 1>>, <<c[1], c[2] - 1>>}

RECURSIVE Flood(_, _, _)
Flood(seen, frontier, floor) ==
    IF frontier = {}
    THEN seen
    ELSE LET next == ((UNION {Neighbours(c) : c \in frontier}) \cap floor) \ seen
         IN Flood(seen \cup next, next, floor)

ReachableFrom(c, floor) == IF c \in floor THEN Flood({c}, {c}, floor) ELSE {}

(***************************************************************************)
(* C1: in every Enemy.update of game.py, a distance below 260 leaves the   *)
(* enemy in state chase, a distance above 360 leaves it in state patrol,   *)
(* and a distance in [260, 360] leaves the state as it was; so an enemy    *)
(* goes from chase to patrol only at a distance above 360.  An enemy that  *)
(* has not been updated yet is in state patrol.                            *)
(***************************************************************************)
C1_AggroHysteresis ==
    /\ (a_log.step \in {"enemy", "raise"}) =>
          /\ (a_log.dist < 260) => (a_log.now = "chase")
          /\ (a_log.dist > 360) => (a_log.now = "patrol")
          /\ (a_log.dist >= 260 /\ a_log.dist <= 360) => (a_log.now = a_log.prev)
          /\ (a_log.prev = "chase" /\ a_log.now = "patrol") => (a_log.dist > 360)
          /\ \A e \in Range(a_enemies) : (e.id = a_log.id) => (e.state = a_log.now)
    /\ (a_pc = "enemies" /\ a_ticks = 1 /\ ~a_crashed) =>
          \A e \in Range(a_enemies) : (e.id \in Range(a_todo)) => (e.state = "patrol")

\* a chasing enemy updated at distance 360 is still chasing
C1_Witness ==
    /\ a_log.step = "enemy"
    /\ a_log.prev = "chase"
    /\ a_log.dist = 360
    /\ a_log.now = "chase"

(***************************************************************************)
(* C2: a live projectile of the player that overlaps an enemy in a frame   *)
(* of game3.py has, when the frame is over, taken its dmg from that        *)
(* enemy's hp and left play.                                               *)
(***************************************************************************)
C2_PlayerShotDamages ==
    (s_pc = "idle") =>
        \A o \in s_over :
            /\ o.shot \notin S_Ids(s_own) \cup S_Ids(s_projectiles)
            /\ \A e \in Range(s_enemies) : (e.id = o.enemy) => (e.hp <= o.hp - o.dmg)

(***************************************************************************)
(* C3: Game.spawn_wave of game2mod.py, called with wave index w, adds one  *)
(* boss and nothing else when w % 5 = 0, and otherwise 2*w enemies, each   *)
(* normal, fast or tank.                                                   *)
(***************************************************************************)
C3_WaveComposition ==
    w_done =>
        IF w_wave % 5 = 0
        THEN Len(w_enemies) = 1 /\ w_enemies[1].etype = "boss"
        ELSE /\ Len(w_enemies) = 2 * w_wave
             /\ \A k \in 1 .. Len(w_enemies) : w_enemies[k].etype \in {"normal", "fast", "tank"}

\* the fifth wave was spawned
C3_Witness ==
    /\ w_done
    /\ w_wave = 5
    /\ Len(w_enemies) = 1

(***************************************************************************)
(* C4: in game.py and game2mod.py an enemy is removed in the collision     *)
(* step in which the bullets that hit it bring its health to 0 or below,   *)
(* which for health 30 and damage 20 is the step of its second hit; the    *)
(* kill score is added once in that step, however many bullets overlap     *)
(* the enemy, and never otherwise; no enemy of health <= 0 stays listed.   *)
(***************************************************************************)
C4_KilledOnSecondHit ==
    /\ (a_log.step = "enemy") =>
          /\ a_log.removed <=> (a_log.before - 20 * a_log.hits <= 0)
          /\ a_log.gain = (IF a_log.removed THEN (IF a_log.kind = 0 THEN 10 ELSE 35) ELSE 0)
          /\ a_log.removed <=> (a_log.id \notin A_Ids(a_enemies))
          /\ (a_log.kind = 0) =>
                /\ a_log.before \in {30, 10}
                /\ a_log.removed <=> (((30 - a_log.before) \div 20) + a_log.hits >= 2)
    /\ (m_log.step = "enemy") =>
          /\ m_log.removed <=> (m_log.before - 20 * m_log.hits <= 0)
          /\ m_log.gain = (IF m_log.removed THEN 10 ELSE 0)
          /\ m_log.removed <=> (m_log.id \notin M_Ids(m_enemies))
          /\ (m_log.etype = "normal") =>
                /\ m_log.before \in {30, 10}
                /\ m_log.removed <=> (((30 - m_log.before) \div 20) + m_log.hits >= 2)
    /\ \A e \in Range(a_enemies) : e.health > 0
    /\ \A e \in Range(m_enemies) : e.health > 0

\* game.py: two bullets overlap an unhurt enemy of health 30 in one frame; it
\* is removed and 10 is scored
C4_Witness ==
    /\ a_log.step = "enemy"
    /\ a_log.kind = 0
    /\ a_log.before = 30
    /\ a_log.hits = 2
    /\ a_log.removed
    /\ a_log.gain = 10

(***************************************************************************)
(* C5: after Dungeon.generate, every cell of every room is reachable from  *)
(* the centre of rooms[0] through 4-adjacent floor cells.                  *)
(***************************************************************************)
C5_AllRoomsReachable ==
    (d_pc = "construct") =>
        LET reach == ReachableFrom(Center(d_rooms[1]), d_tiles)
        IN \A k \in 1 .. Len(d_rooms) : RoomCells(d_rooms[k]) \subseteq reach

\* three rooms were placed and two consecutive centres differ in both
\* coordinates, so that a corridor has a corner
C5_Witness ==
    /\ d_pc = "construct"
    /\ Len(d_rooms) >= 3
    /\ \E k \in 1 .. (Len(d_rooms) - 1) :
          /\ Center(d_rooms[k])[1] # Center(d_rooms[k + 1])[1]
          /\ Center(d_rooms[k])[2] # Center(d_rooms[k + 1])[2]

(***************************************************************************)
(* C6: no two distinct rooms of dungeon.rooms intersect (RectRoom's test,  *)
(* which counts touching rectangles), and no two share a cell.             *)
(***************************************************************************)
C6_RoomsDisjoint ==
    (d_pc \in {"generate", "construct"}) =>
        \A i, j \in 1 .. Len(d_rooms) :
            i # j => /\ ~Intersects(d_rooms[i], d_rooms[j])
                     /\ RoomCells(d_rooms[i]) \cap RoomCells(d_rooms[j]) = {}

\* generation is over, a candidate was discarded and several rooms stand
C6_Witness ==
    /\ d_pc = "construct"
    /\ d_rejected >= 1
    /\ Len(d_rooms) >= 3

(***************************************************************************)
(* C7: constructing Game on any generated dungeon, a single-room one       *)
(* included, completes without error.                                      *)
(***************************************************************************)
C7_ConstructNeverFails == d_pc # "crashed"

(***************************************************************************)
(* C8: Dungeon.generate makes exactly MAX_ROOMS draws, one per iteration,  *)
(* a rejected candidate is dropped and not drawn again in its iteration,   *)
(* and it ends with between 1 and MAX_ROOMS rooms.                         *)
(***************************************************************************)
C8_GenerateBounded ==
    /\ d_draws = d_attempt
    /\ d_attempt <= MAX_ROOMS
    /\ Len(d_rooms) + d_rejected = d_draws
    /\ (d_pc = "generate") => (d_attempt < MAX_ROOMS)
    /\ (d_pc # "generate") =>
          /\ d_draws = MAX_ROOMS
          /\ Len(d_rooms) >= 1
          /\ Len(d_rooms) <= MAX_ROOMS

\* generation ended after discarding candidates, with fewer rooms than draws
C8_Witness ==
    /\ d_pc = "construct"
    /\ d_rejected >= 1
    /\ Len(d_rooms) = 2

(***************************************************************************)
(* C9: no frame and no input handler of game.py, game2mod.py or game3.py   *)
(* raises on a vector of length zero.                                      *)
(***************************************************************************)
C9_NoHandlerRaises == ~a_crashed /\ ~m_crashed /\ ~s_crashed

(***************************************************************************)
(* C10: a projectile of game3.py that a frame's loop over the global list  *)
(* updates has been updated once in that frame, and its life went down by  *)
(* dt.                                                                     *)
(***************************************************************************)
C10_UpdatedOncePerFrame ==
    (s_log.step \in {"projectile", "expired"}) =>
        /\ s_log.n = 1
        /\ s_log.after = s_log.before - s_log.dt


(***************************************************************************)
(* C11: when a simulation tick of game.py, game2.py, game2mod.py or        *)
(* game3.py has ended, no bullet, projectile or particle with life <= 0 is *)
(* left in a list of the game (so none is drawn or collision-checked in a  *)
(* later tick).                                                            *)
(***************************************************************************)
C11_NoExpiredAfterTick ==
    /\ (variant = "game" /\ a_pc = "idle") =>
          /\ \A b \in Range(a_bullets) : b.life > 0
          /\ \A k \in 1 .. Len(a_particles) : a_particles[k] > 0
    /\ variant = "runner" => \A k \in 1 .. Len(r_particles) : r_particles[k] > 0
    /\ (variant = "cyber" /\ m_pc = "idle") =>
          /\ \A b \in Range(m_bullets) : b.life > 0
          /\ \A k \in 1 .. Len(m_particles) : m_particles[k] > 0
    /\ (variant = "forge" /\ s_pc = "idle") =>
          /\ \A p \in Range(s_own) \cup Range(s_projectiles) : p.life > 0
          /\ \A k \in 1 .. Len(s_particles) : s_particles[k] > 0

\* C11: a tick of game2mod.py has ended in which a bullet that was fired and
\* struck nothing has run out of life, and it is gone
C11_Witness ==
    /\ variant = "cyber" /\ m_pc = "idle" /\ m_ticks = 1
    /\ m_player.ammo = M_PLAYER_AMMO - 1
    /\ m_bullets = <<>>
    /\ Len(m_enemies) = 2
    /\ \A e \in Range(m_enemies) : e.health = M_EnemyHealth(e.etype)

C13_PassIsStable ==
    /\ (variant = "game" /\ a_log.step = "enemy") =>
          /\ Len(a_bullets) = a_log.bullets - a_log.hits
          /\ Len(a_enemies) = a_log.enemies - (IF a_log.removed THEN 1 ELSE 0)
          /\ a_log.nth <= a_log.of
          /\ a_pc = "enemies" => Len(a_todo) = a_log.of - a_log.nth
          /\ a_pc = "contact" => a_log.nth = a_log.of
    /\ (variant = "game" /\ a_pc = "enemies") =>
          /\ \A k \in 1 .. Len(a_todo) : a_todo[k] \in A_Ids(a_enemies)
          /\ \A j, k \in 1 .. Len(a_todo) : a_todo[j] = a_todo[k] => j = k
    /\ (variant = "cyber" /\ m_log.step = "enemy") =>
          /\ Len(m_bullets) = m_log.bullets - m_log.hits
          /\ Len(m_enemies) = m_log.enemies - (IF m_log.removed THEN 1 ELSE 0)
          /\ m_log.hits <= 1
          /\ m_log.nth <= m_log.of
          /\ m_pc = "enemies" => Len(m_todo) = m_log.of - m_log.nth
          /\ m_pc = "rest" => m_log.nth = m_log.of
    /\ (variant = "cyber" /\ m_pc = "enemies") =>
          /\ \A k \in 1 .. Len(m_todo) : m_todo[k] \in M_Ids(m_enemies)
          /\ \A j, k \in 1 .. Len(m_todo) : m_todo[j] = m_todo[k] => j = k

\* C13: game.py, the pass has visited the last of the enemies it began with,
\* after it had removed an enemy and bullets earlier in the same pass
C13_Witness ==
    /\ variant = "game"
    /\ a_log.step = "enemy" /\ a_pc = "contact"
    /\ a_log.of = 3 /\ a_log.nth = 3
    /\ a_log.enemies = 2
    /\ a_log.bullets = 0

(***************************************************************************)
(* C14: while game.py or game2.py is paused, no frame and no input event   *)
(* other than the key that ends the pause changes the simulation state:    *)
(* the player, the bullets, the enemies, the particles, the camera, the    *)
(* timers and the top-level state stay as they are.                        *)
(***************************************************************************)
C14_PausedIsFrozen ==
    [][/\ (variant = "game" /\ a_paused /\ a_paused') =>
             UNCHANGED <<a_state, a_player, a_bullets, a_enemies, a_particles, a_spawn,
                         a_wave>>
       /\ (variant = "runner" /\ r_paused /\ r_paused') =>
             UNCHANGED <<r_state, r_player, r_particles, r_cam>>]_vars

(***************************************************************************)
(* C15: in game3.py the player's hp falls only in the collision step of a  *)
(* projectile owned by an enemy, and an enemy's hp falls only in the       *)
(* collision step of a projectile owned by the player: no projectile       *)
(* damages its owner's side.                                               *)
(***************************************************************************)
C15_NoFriendlyFire ==
    [][variant = "forge" =>
         /\ s_player'.hp < s_player.hp =>
               s_log'.step = "projectile" /\ s_log'.owner = "enemy"
         /\ (\E e \in Range(s_enemies) : \E f \in Range(s_enemies') :
                 f.id = e.id /\ f.hp < e.hp) =>
               s_log'.step = "projectile" /\ s_log'.owner = "player"]_vars

\* C15: a projectile fired by a ranged enemy has struck the player, and every
\* enemy still has its full hp
C15_Witness ==
    /\ variant = "forge"
    /\ s_log.step = "projectile" /\ s_log.owner = "enemy"
    /\ s_player.hp = S_PLAYER_HP - S_ENEMY_SHOT_DAMAGE
    /\ \A e \in Range(s_enemies) : e.hp = S_EnemyMaxHp(e.kind)

(***************************************************************************)
(* C16: in game.py the player's health falls only at the contact check of  *)
(* a tick, by 30 * dt for each enemy overlapping the player there; in      *)
(* game2mod.py it falls only in an enemy's turn of the tick, by 20 * dt    *)
(* when that enemy overlaps the player and by nothing otherwise.  The      *)
(* loss is proportional to dt in every overlapping tick.                   *)
(***************************************************************************)
C16_ContactDamage ==
    [][/\ variant = "game" =>
            /\ a_player'.health < a_player.health => a_pc = "contact"
            /\ (a_pc = "contact" /\ a_pc' = "idle") =>
                  /\ a_log'.step = "contact"
                  /\ a_player.health - a_player'.health = 30 * a_dt * a_log'.touching
       /\ variant = "cyber" =>
            /\ m_player'.health < m_player.health =>
                  m_pc = "enemies" /\ m_log'.step = "enemy" /\ m_log'.touch
            /\ (m_pc = "enemies" /\ m_log'.step = "enemy") =>
                  m_player.health - m_player'.health =
                     (IF m_log'.touch THEN 20 * m_dt ELSE 0)]_vars

\* C16: the second tick in a row in which enemies overlap the player of
\* game.py, two of them in this tick
C16_Witness ==
    /\ variant = "game"
    /\ a_log.step = "contact" /\ a_pc = "idle"
    /\ a_log.touching = 2
    /\ a_log.before < A_NewPlayer.health
    /\ a_player.health = a_log.before - 2 * 30 * a_log.dt

C18_GeneratedAhead ==
    (variant = "level" /\ l_log.step # "none") =>
       /\ l_log.after >= l_log.before
       /\ l_farthest = l_log.after
       /\ l_log.step = "generate" => l_log.x > l_log.player

(***************************************************************************)
(* C19: in game2.py every iteration of Level.update's loop moves           *)
(* farthest_x forward by the gap plus the width of the platform it adds,   *)
(* which is at least 100 + 80; so the n-th iteration of a call began       *)
(* with farthest_x at least (n - 1) * 180 beyond its value at the call     *)
(* and still below player_x + 1600, which bounds the number of             *)
(* iterations.  No iteration raises for an empty orb range, and when the   *)
(* call has returned farthest_x >= player_x + 1600.                        *)
(***************************************************************************)
C19_UpdateReachesLookahead ==
    variant = "level" =>
       /\ l_pc # "raised"
       /\ l_pc \in {"cleanup", "idle"} => l_farthest >= l_player + 1600
       /\ l_log.step = "generate" =>
             /\ l_log.after - l_log.before = l_log.gap + l_log.w
             /\ l_log.after - l_log.before >= 100 + 80
             /\ l_log.w - 40 >= 40
             /\ l_log.before >= l_log.from + (l_log.n - 1) * 180
             /\ l_log.before < l_log.player + 1600
             /\ l_log.n * 180 < l_log.player + 1600 - l_log.from + 180

\* C19: a call has returned after five or more iterations, the last of which
\* clamped both the gap and the width to their minimum and placed an orb in
\* the one-point range 40 .. 40
C19_Witness ==
    /\ variant = "level"
    /\ l_pc = "cleanup"
    /\ l_log.step = "generate" /\ l_log.n >= 5
    /\ l_log.gap = L_GAP_MIN /\ l_log.w = L_WIDTH_MIN
    /\ L_OrbDrawn(l_draw.orb)
    /\ l_orbs # <<>> /\ l_orbs[Len(l_orbs)].x = l_log.after + l_log.gap + L_ORB_INSET
    /\ l_farthest >= l_player + L_LOOKAHEAD

(***************************************************************************)
(* C20, as stated: after Level.cleanup(cam_x) every remaining platform has *)
(* its right edge > cam_x - 400 and every remaining obstacle and orb has   *)
(* x > cam_x - 400; nothing whose right edge (platform) or x (obstacle,    *)
(* orb) is at or beyond cam_x - 400 has been removed; farthest_x is        *)
(* unchanged.                                                              *)
(***************************************************************************)
C20_NothingAtOrBeyondRemoved ==
    (variant = "level" /\ l_log.step = "cleanup") =>
       LET bound == l_log.bound IN
       /\ \A p \in Range(l_platforms) : p.x + p.w > bound
       /\ \A o \in Range(l_obstacles) : o.x2 > 2 * bound
       /\ \A o \in Range(l_orbs) : o.x > bound
       /\ \A p \in Range(l_log.platforms) : p.x + p.w >= bound => p \in Range(l_platforms)
       /\ \A o \in Range(l_log.obstacles) : o.x2 >= 2 * bound => o \in Range(l_obstacles)
       /\ \A o \in Range(l_log.orbs) : o.x >= bound => o \in Range(l_orbs)
       /\ l_farthest = l_log.before

(***************************************************************************)
(* C20, amended: after Level.cleanup(cam_x) every remaining platform has   *)
(* its right edge > cam_x - 400 and every remaining obstacle and orb has   *)
(* x > cam_x - 400; nothing strictly beyond that bound has been removed,   *)
(* what lies exactly at the bound has been removed, the order of what      *)
(* remains is kept, and farthest_x is unchanged.                           *)
(***************************************************************************)
C20_CleanupKeepsBeyondBound ==
    (variant = "level" /\ l_log.step = "cleanup") =>
       LET bound == l_log.bound
           Kept(before, after, Test(_)) ==
              /\ \A k \in 1 .. Len(after) : Test(after[k])
              /\ \A k \in 1 .. Len(before) :
                    Test(before[k]) => \E j \in 1 .. Len(after) : after[j] = before[k]
              /\ Len(after) = Cardinality({k \in 1 .. Len(before) : Test(before[k])})
              /\ \A j, k \in 1 .. Len(after) :
                    j < k => \E a, b \in 1 .. Len(before) :
                                a < b /\ before[a] = after[j] /\ before[b] = after[k]
           PlatformBeyond(p) == p.x + p.w > bound
           ObstacleBeyond(o) == o.x2 > 2 * bound
           OrbBeyond(o) == o.x > bound
       IN
       /\ bound = l_cam - 400
       /\ Kept(l_log.platforms, l_platforms, PlatformBeyond)
       /\ Kept(l_log.obstacles, l_obstacles, ObstacleBeyond)
       /\ Kept(l_log.orbs, l_orbs, OrbBeyond)
       /\ l_farthest = l_log.before

\* C20: a cleanup has removed a platform whose right edge was exactly at
\* cam_x - 400 and has kept the platforms beyond it
C20_Witness ==
    /\ variant = "level"
    /\ l_log.step = "cleanup"
    /\ \E p \in Range(l_log.platforms) :
          p.x + p.w = l_log.bound /\ p \notin Range(l_platforms)
    /\ l_platforms # <<>>
    /\ Len(l_platforms) < Len(l_log.platforms)

(***************************************************************************)
(* C21: in a tick of game2.py in which the player's rectangle overlaps a   *)
(* platform while vel.y > 0 and pos.y before the tick's movement was at    *)
(* most 6 px below the platform's top, the tick ends with pos.y equal to   *)
(* the platform's top, vel.y = 0, on_ground true and double_jumps =        *)
(* MAX_DOUBLE_JUMP; in a tick with vel.y <= 0 at the test, the position    *)
(* and the velocity are those Player.update left, on_ground is false and   *)
(* double_jumps keeps its value, whatever is overlapped.                   *)
(***************************************************************************)
C21_LandingSnapsToTop ==
    (variant = "hop" /\ h_log.step = "update") =>
       LET m == h_log.moved IN
       /\ \A k \in 1 .. Len(h_log.over) :
             (m.vy > 0 /\ h_log.before.y <= (h_log.over[k].y + 6) * 10000) =>
                /\ h_player.y = h_log.over[k].y * 10000
                /\ h_player.vy = 0
                /\ h_player.on_ground
                /\ h_player.double_jumps = 1
       /\ m.vy <= 0 =>
             /\ h_player.y = m.y /\ h_player.vy = m.vy
             /\ ~h_player.on_ground
             /\ h_player.double_jumps = m.double_jumps

\* C21: the player, its double jump spent, has fallen into the ground
\* platform (top 460) from above it and stands on its top
C21_Witness ==
    /\ variant = "hop"
    /\ h_log.step = "update"
    /\ h_log.before.y <= 460 * 10000 /\ h_log.moved.y > 460 * 10000
    /\ h_log.moved.vy > 0 /\ h_log.before.double_jumps = 0
    /\ Len(h_log.over) = 1 /\ h_log.over[1].y = 460
    /\ h_player.y = 460 * 10000 /\ h_player.vy = 0
    /\ h_player.on_ground /\ h_player.double_jumps = 1

(***************************************************************************)
(* C22: a call of update with dt = 0 leaves the position of the object as  *)
(* it was, for the Player, Enemy, Bullet or Projectile and Particle of     *)
(* each of the four games, whatever its velocity, the keys held and the    *)
(* player's direction and range.                                           *)
(***************************************************************************)
C22_ZeroDtKeepsPosition ==
    (variant = "moves" /\ e_log.step \in {"update", "raise"} /\ e_log.dt = 0) =>
       e_pos = e_log.pos

\* C22: an object that an earlier call has moved away from where it was
\* created is updated with dt = 0 while its velocity is not zero
C22_Witness ==
    /\ variant = "moves"
    /\ e_log.step = "update" /\ e_log.dt = 0
    /\ e_log.vel # <<0, 0>> /\ e_vel # <<0, 0>>
    /\ e_log.pos # <<0, 0>>
    /\ e_pos = e_log.pos

(***************************************************************************)
(* C23: Player.update of game.py and of game3.py adds                      *)
(* (move * target_speed - vel) * clamp(12 * dt, 0, 1) to the velocity and  *)
(* then vel * dt to the position.  From rest at (0, 0) with move (1, 0),   *)
(* speed 320 and dt = 1/60 s the velocity becomes (64, 0) and the position *)
(* (64/60, 0); with 12 * dt >= 1 the velocity becomes the target; and each *)
(* component of the new velocity lies between the old one and the target.  *)
(* (Velocities in thousandths of a pixel per second, dt in 600ths of a     *)
(* second, positions in 600000ths of a pixel.)                             *)
(***************************************************************************)
C23_SmoothedVelocity ==
    (variant = "moves" /\ e_kind \in {"game.Player", "game3.Player"}
        /\ e_log.step = "update") =>
       LET old == e_log.vel
           target == e_log.target
           dt == e_log.dt
           share == IF 12 * dt > 600 THEN 600 ELSE 12 * dt
       IN
       /\ \A i \in 1 .. 2 :
             /\ (e_vel[i] - old[i]) * 600 <= (target[i] - old[i]) * share
             /\ (e_vel[i] - old[i]) * 600 > (target[i] - old[i]) * share - 600
             /\ old[i] <= target[i] => (old[i] <= e_vel[i] /\ e_vel[i] <= target[i])
             /\ old[i] >= target[i] => (target[i] <= e_vel[i] /\ e_vel[i] <= old[i])
             /\ e_pos[i] = e_log.pos[i] + e_vel[i] * dt
       /\ 12 * dt >= 600 => e_vel = target
       /\ (old = <<0, 0>> /\ e_log.pos = <<0, 0>> /\ target = <<320000, 0>> /\ dt = 10) =>
             (e_vel = <<64000, 0>> /\ e_pos = <<640000, 0>>)

\* C23: the player of game.py, from rest at the origin, has been updated with
\* move (1, 0) at speed 320 for dt = 1/60 s
C23_Witness ==
    /\ variant = "moves" /\ e_kind = "game.Player"
    /\ e_log.step = "update" /\ e_log.dt = 10
    /\ e_log.vel = <<0, 0>> /\ e_log.pos = <<0, 0>>
    /\ e_log.target = <<320000, 0>>
    /\ e_vel = <<64000, 0>> /\ e_pos = <<640000, 0>>

(***************************************************************************)
(* C24: the gap and the width of every platform that Level.update          *)
(* generates are at most what the same random draws give at any smaller    *)
(* difficulty (player_x / 1200), down to difficulty 0; the gap is within   *)
(* 100 .. 380, the width within 80 .. 340 and the height within            *)
(* 220 .. 460.                                                             *)
(***************************************************************************)
C24_DifficultyNarrows ==
    (variant = "level" /\ l_log.step = "generate") =>
       /\ l_log.gap >= 100 /\ l_log.gap <= 380
       /\ l_log.w >= 80 /\ l_log.w <= 340
       /\ l_log.y >= 220 /\ l_log.y <= 460
       /\ l_log.gap <= Clamp(180 + l_draw.gap, 100, 380)
       /\ l_log.w <= Clamp(120 + l_draw.w, 80, 340)
       /\ \A k \in 0 .. 8 :
             LET easier == (l_difficulty * k) \div 8 IN
             /\ L_Gap(easier, l_draw.gap) >= l_log.gap
             /\ L_Width(easier, l_draw.w) >= l_log.w
             /\ \A j \in 0 .. k :
                   LET easiest == (l_difficulty * j) \div 8 IN
                   /\ L_Gap(easiest, l_draw.gap) >= L_Gap(easier, l_draw.gap)
                   /\ L_Width(easiest, l_draw.w) >= L_Width(easier, l_draw.w)

\* C24: at a difficulty above 4 the largest draws, which give a gap of 240
\* and a width of 180 at difficulty 0, give the smallest gap, width and height
C24_Witness ==
    /\ variant = "level" /\ l_log.step = "generate"
    /\ l_difficulty > 4 * L_DIFFICULTY_SPAN
    /\ l_draw.gap = 60 /\ l_draw.w = 60 /\ l_draw.h = 70
    /\ l_log.gap = 100 /\ l_log.w = 80 /\ l_log.y = 220

(***************************************************************************)
(* The dash of game2.py and game3.py, tick by tick: a tick of Player.update *)
(* uses DASH_SPEED exactly when a dash is in progress at its start (then    *)
(* the timer is > 0) and the normal speed otherwise; a dash tick takes dt   *)
(* off the timer; the dash is over after the tick that brings the timer to  *)
(* <= 0, with no input; a dash requested while one is in progress changes   *)
(* nothing.                                                                 *)
(***************************************************************************)
DashMechanics ==
    /\ (variant = "hop" /\ h_player.dashing) => h_player.dash_timer > 0
    /\ (variant = "hop" /\ h_log.step = "update") =>
          LET b == h_log.before
              m == h_log.moved
          IN
          /\ m.x - b.x = (IF b.dashing THEN R_DASH_SPEED ELSE R_RUN_SPEED) * h_log.dt
          /\ b.dashing => m.dash_timer = b.dash_timer - h_log.dt
          /\ ~b.dashing => m.dash_timer = b.dash_timer
          /\ m.dashing <=> (b.dashing /\ m.dash_timer > 0)
          /\ h_player.dashing = m.dashing /\ h_player.dash_timer = m.dash_timer
          /\ b.dashing => h_log.dash_ms = R_DASH_TIME - m.dash_timer
    /\ (variant = "hop" /\ h_log.step = "dash" /\ h_log.before.dashing) =>
          ~h_log.dashed /\ h_player = h_log.before
    /\ (variant = "forge" /\ s_log.step = "player") =>
          LET b == s_log.before IN
          /\ s_log.target_speed = (IF b.dash_timer > 0 THEN 720 ELSE 260)
          /\ s_pc # "idle" =>
                s_player.dash_timer
                   = (IF b.dash_timer > 0 THEN b.dash_timer - s_log.dt ELSE b.dash_timer)
    /\ (variant = "forge" /\ s_log.step = "dash" /\ s_log.before.dash_timer > 0) =>
          /\ s_player.dash_timer = s_log.before.dash_timer
          /\ s_player.inv_timer = s_log.before.inv_timer

(***************************************************************************)
(* C25, as stated: in game2.py and game3.py a dash overrides the movement  *)
(* speed with DASH_SPEED for no more than DASH_TIME (0.18 s) of simulated  *)
(* time; the timer decreases by dt each tick, the dash ends without input  *)
(* once the timer is <= 0, the next tick uses the normal speed, and no     *)
(* dash starts while one is in progress.                                   *)
(***************************************************************************)
C25_DashSpeedOnlyForDashTime ==
    /\ DashMechanics
    /\ variant = "hop" => h_log.dash_ms <= 180
    /\ (variant = "forge" /\ s_log.step = "player" /\ s_log.target_speed = 720) =>
          s_log.dt <= 180

(***************************************************************************)
(* C25, amended: a dash overrides the movement speed with DASH_SPEED in    *)
(* every tick that starts less than DASH_TIME (0.18 s) of simulated time   *)
(* after the dash began, the whole tick: for DASH_TIME rounded up to whole *)
(* ticks, less than DASH_TIME + dt.  The timer decreases by dt each dash   *)
(* tick, the dash ends without input once the timer is <= 0, the next tick *)
(* uses the normal speed, and no dash starts while one is in progress.     *)
(***************************************************************************)
C25_DashSpeedForWholeTicks ==
    /\ DashMechanics
    /\ (variant = "hop" /\ h_log.step = "update" /\ h_log.before.dashing) =>
          /\ h_log.dash_ms - h_log.dt < 180
          /\ h_log.dash_ms < 180 + h_log.dt
          /\ h_player.dashing <=> h_log.dash_ms < 180
    /\ (variant = "forge" /\ s_log.step = "player" /\ s_log.target_speed = 720) =>
          /\ s_log.before.dash_timer > 0 /\ s_log.before.dash_timer <= 180
          /\ s_pc # "idle" => s_player.dash_timer > -s_log.dt

\* C25: a tick of game2.py at the normal speed after a dash that the timer
\* ended, the dash having lasted four ticks of 50 ms
C25_Witness ==
    /\ variant = "hop" /\ h_log.step = "update"
    /\ ~h_log.before.dashing /\ h_log.before.dash_timer = -20
    /\ h_log.dash_ms = 200
    /\ h_log.moved.x - h_log.before.x = 320 * h_log.dt

\* what Enemy.update of game3.py did to a ranged enemy whose call returned
RangedKeepsRange ==
    (variant = "forge" /\ s_log.step = "enemy" /\ s_log.kind = 1) =>
       /\ (s_log.dist < 350 /\ s_log.dist < 160) => s_log.move = "away"
       /\ (s_log.dist < 350 /\ s_log.dist > 220) => s_log.move = "towards"
       /\ (s_log.dist >= 160 /\ s_log.dist <= 220) => s_log.move = "hold"
       /\ s_log.dist >= 350 =>
             /\ s_log.move = "none" /\ ~s_log.fires
             /\ \A e \in Range(s_enemies) :
                   e.id = s_log.id => e.fire_cooldown = s_log.cooldown
       \* the cooldown is 0 until the first shot and 1.1 s less the time
       \* spent in aggro range after a shot
       /\ (s_log.fires /\ s_log.cooldown # 0) =>
             (1100 - s_log.cooldown) + s_log.dt >= 1100

(***************************************************************************)
(* C26: in game3.py every call of Enemy.update for a ranged enemy (kind 1) *)
(* returns, having moved the enemy away from the player when the distance  *)
(* is < 160, towards the player when it is > 220 and < 350, and not at all *)
(* when it is in [160, 220]; at a distance >= 350 the enemy neither moves  *)
(* nor fires and its cooldown does not run; two shots of an enemy are      *)
(* separated by at least 1.1 s of time spent in aggro range.               *)
(***************************************************************************)
C26_RangedKeepsRange ==
    /\ RangedKeepsRange
    /\ ~(variant = "forge" /\ s_log.step = "raise" /\ s_log.kind = 1)

(***************************************************************************)
(* C27: in game.py and game2mod.py a tick of Game.update during which the  *)
(* player's health is <= 0 ends in state "gameover" (in game2mod.py the    *)
(* state is "gameover" as soon as the health is <= 0); and while the state *)
(* is "gameover" nothing of the simulation changes (health, score,         *)
(* bullets, enemies, particles, spawn timer, wave, count of updates) until *)
(* the step that restarts the game.                                        *)
(***************************************************************************)
C27_GameOverStopsSimulation ==
    [][/\ (variant = "game" /\ a_pc' = "idle" /\ a_player'.health <= 0) =>
             a_state' = "gameover"
       /\ (variant = "cyber" /\ m_player'.health <= 0) => m_state' = "gameover"
       /\ (variant = "game" /\ a_state = "gameover") =>
             \/ a_state' = "playing" /\ a_player' = A_NewPlayer
             \/ /\ a_state' = "gameover"
                /\ UNCHANGED <<a_player, a_bullets, a_enemies, a_particles, a_spawn,
                               a_wave, a_ticks, a_pc>>
       /\ (variant = "cyber" /\ m_state = "gameover" /\ m_pc = "idle") =>
             \/ m_state' = "playing" /\ m_player' = M_NewPlayer
             \/ /\ m_state' = "gameover"
                /\ m_player'.health = m_player.health
                /\ m_player'.score = m_player.score
                /\ UNCHANGED <<m_bullets, m_enemies, m_particles, m_spawn, m_wave,
                               m_ticks, m_pc>>
      ]_vars

\* C27: game2mod.py is over after a tick in which the contact of an enemy
\* brought the health to exactly 0, and a key (K_r) has been handled since
C27_Witness ==
    /\ variant = "cyber" /\ m_state = "gameover" /\ m_pc = "idle"
    /\ m_player.health = 0
    /\ m_player.reloading

(***************************************************************************)
(* C28: in game3.py the tick in which the player's hp reaches <= 0 ends    *)
(* outside the state "playing": between two frames the game is never in    *)
(* state "playing" with hp <= 0, and no call of Game.update runs the       *)
(* simulation with hp <= 0.                                                *)
(***************************************************************************)
C28_LeavesPlayingAtZeroHp ==
    /\ ~(variant = "forge" /\ s_pc = "idle" /\ s_player.hp <= 0 /\ s_state = "playing")
    /\ ~(variant = "forge" /\ s_log.step = "player" /\ s_log.before.hp <= 0)

\* game3.py runs a frame of the simulation with a player whose hp is <= 0
TicksOnAtZeroHp ==
    /\ variant = "forge" /\ s_state = "playing"
    /\ s_log.step = "player" /\ s_log.before.hp <= 0

\* the platforms of game2.py on whose top the player p stands: pos.y is the
\* platform's top, vel.y is 0 and the rectangles overlap horizontally
StoodOn(p) ==
    {q \in Range(L_Reset.platforms) :
        LET pr == H_PlayerRect(p)
            r == H_PlatformRect(q)
        IN
        /\ p.y = q.y * 10000 /\ p.vy = 0
        /\ pr.x < r.x + r.w /\ pr.x + pr.w > r.x}

(***************************************************************************)
(* C29: in game2.py a tick that begins with the player on the ground (it   *)
(* has landed and has not jumped since) and ends with the player still     *)
(* horizontally over the platform it stands on ends with on_ground true;   *)
(* and a jump requested while the player stands on a platform is a ground  *)
(* jump: vel.y = JUMP_V and double_jumps = MAX_DOUBLE_JUMP after it.       *)
(***************************************************************************)
C29_StandingStaysOnGround ==
    /\ (variant = "hop" /\ h_log.step = "update" /\ h_log.before.on_ground
           /\ StoodOn(h_log.before) \cap StoodOn(h_log.moved) # {}) =>
          h_player.on_ground
    /\ (variant = "hop" /\ h_log.step = "jump" /\ StoodOn(h_log.before) # {}) =>
          /\ h_log.before.on_ground
          /\ h_player.vy = R_JUMP_V * 10
          /\ h_player.double_jumps = R_MAX_DOUBLE_JUMP

\* a jump requested while the player stands on the ground platform is an air
\* jump that uses up the double jump
AirJumpWhileStanding ==
    /\ variant = "hop" /\ h_log.step = "jump" /\ StoodOn(h_log.before) # {}
    /\ ~h_log.before.on_ground
    /\ h_log.before.double_jumps = 1 /\ h_player.double_jumps = 0
    /\ h_player.vy = R_JUMP_V * 9

(***************************************************************************)
(* C30: in game2.py player.double_jumps is always in 0 .. MAX_DOUBLE_JUMP; *)
(* the jumps made in the air since the last landing (since the start,      *)
(* before the first) number at most MAX_DOUBLE_JUMP; and Player.jump       *)
(* called with on_ground false and double_jumps = 0 returns False and      *)
(* leaves the player as it was.                                            *)
(***************************************************************************)
C30_DoubleJumpBudget ==
    variant = "hop" =>
       /\ h_player.double_jumps \in 0 .. 1
       /\ h_log.air_jumps <= 1
       /\ (h_log.step = "jump" /\ ~h_log.before.on_ground) =>
             IF h_log.before.double_jumps = 0
             THEN ~h_log.jumped /\ h_player = h_log.before
             ELSE /\ h_log.jumped
                  /\ h_player.double_jumps = h_log.before.double_jumps - 1
                  /\ h_player.vy = -6660
       /\ (h_log.step = "update" /\ h_player.on_ground) => h_player.double_jumps = 1

\* C30: a jump is refused in the air, the one air jump since the last
\* landing having been made
C30_Witness ==
    /\ variant = "hop" /\ h_log.step = "jump"
    /\ ~h_log.before.on_ground /\ h_log.before.double_jumps = 0
    /\ ~h_log.jumped /\ h_log.air_jumps = 1
    /\ h_ticks > 3

\* the changes of Game.state that game.py and game2.py may make
StateMoves == {<<"menu", "playing">>, <<"playing", "gameover">>, <<"gameover", "playing">>}

(***************************************************************************)
(* C31: in game.py and game2.py Game.state changes only from menu to       *)
(* playing and from gameover to playing (by the start of a game, which     *)
(* makes a new player) and from playing to gameover (by Game.update: the   *)
(* health is <= 0 in game.py, an obstacle was hit in game2.py); paused is  *)
(* true only in state playing; running, once false, stays false.           *)
(***************************************************************************)
C31_StateMachine ==
    [][/\ variant = "game" =>
             /\ a_state' # a_state => <<a_state, a_state'>> \in StateMoves
             /\ (a_state' # a_state /\ a_state' = "playing") =>
                   a_player' = A_NewPlayer /\ a_pc = "idle"
             /\ (a_state' # a_state /\ a_state' = "gameover") =>
                   a_player'.health <= 0 /\ a_pc = "contact"
             /\ a_paused' => a_state' = "playing"
             /\ ~a_running => ~a_running'
       /\ variant = "runner" =>
             /\ r_state' # r_state => <<r_state, r_state'>> \in StateMoves
             /\ (r_state' # r_state /\ r_state' = "playing") =>
                   r_player' = R_NewPlayer /\ r_log'.step = "start"
             /\ (r_state' # r_state /\ r_state' = "gameover") => r_log'.step = "update"
             /\ r_paused' => r_state' = "playing"
             /\ ~r_running => ~r_running'
      ]_vars

\* C31: game.py has been restarted after a game that the contact with the
\* enemies ended, and has been paused since
C31_Witness ==
    /\ variant = "game" /\ a_state = "playing" /\ a_paused
    /\ a_ticks = 0 /\ a_log.step = "contact" /\ a_player = A_NewPlayer

(***************************************************************************)
(* C32: in game.py and game2.py every start of a game, from the menu or    *)
(* after a game over, leaves the state of the first start: a new player    *)
(* (game.py: health 100, score 0; game2.py: at x = 220 with no vertical    *)
(* velocity, not dashing, stamina 1, score and combo 0), no bullets,       *)
(* enemies or particles, wave 1 and spawn timer 0 (game.py), the level of  *)
(* Level.reset (seven platforms, no obstacles or orbs, farthest_x 2320,    *)
(* difficulty 0) and the camera at 0 (game2.py), and paused false.         *)
(***************************************************************************)
C32_RestartIsFirstStart ==
    [][/\ (variant = "game" /\ a_state # "playing" /\ a_state' = "playing") =>
             /\ a_player' = [health |-> 100000, reload |-> 0, score |-> 0]
             /\ a_bullets' = <<>> /\ a_enemies' = <<>> /\ a_particles' = <<>>
             /\ a_wave' = 1 /\ a_spawn' = 0
             /\ ~a_paused'
       /\ (variant = "runner" /\ r_state # "playing" /\ r_state' = "playing") =>
             /\ r_player' = [x |-> 220000, vy |-> 0, on_ground |-> FALSE, double_jumps |-> 1,
                             dashing |-> FALSE, dash_timer |-> 0, stamina |-> 4000,
                             score |-> 0, combo |-> 0]
             /\ r_particles' = <<>> /\ r_cam' = 0
             /\ ~r_paused'
       /\ (variant = "level" /\ l_log'.step = "start") =>
             /\ l_platforms' = [k \in 1 .. 7 |->
                                   IF k = 1 THEN [x |-> -200, y |-> 460, w |-> 1400]
                                   ELSE [x |-> 600 + 300 * (k - 2), y |-> 380 - 20 * (k - 2),
                                         w |-> 220]]
             /\ l_obstacles' = <<>> /\ l_orbs' = <<>>
             /\ l_farthest' = 2320 /\ l_difficulty' = 0
             /\ l_player' = 220 /\ l_cam' = 0
      ]_vars

\* C32: game2.py has been started again after a game over that left a score
\* and live particles
C32_Witness ==
    /\ variant = "runner" /\ r_state = "playing"
    /\ r_log.step = "start" /\ r_log.from = "gameover"
    /\ r_log.score > 0 /\ r_log.particles > 0

(***************************************************************************)
(* C33: in game2mod.py a call of Game.update emits a wave only when the    *)
(* arena has been empty of enemies for more than WAVE_INTERVAL (3.0 s) of  *)
(* the playing time of the current run, counted from the start of the run  *)
(* or from the wave before.                                                *)
(***************************************************************************)
C33_WaveWaitsPerRun ==
    (variant = "waves" /\ t_log.step = "update" /\ t_log.emitted) => t_log.empty > 3000

\* a wave is emitted in a run whose arena has been empty for one frame
EarlyWave ==
    /\ variant = "waves" /\ t_log.step = "update" /\ t_log.emitted
    /\ t_log.empty = t_log.dt /\ t_log.timer > 0 /\ t_log.wave = 1

(***************************************************************************)
(* C34: in game2.py the player's stamina is within [0, 1] in every         *)
(* reachable state (stamina is kept in 4000ths).                           *)
(***************************************************************************)
C34_StaminaInRange ==
    variant = "runner" => (r_player.stamina >= 0 /\ r_player.stamina <= 4000)

\* the third dash in a row leaves a stamina below 0
DashOnCredit ==
    /\ variant = "runner" /\ r_log.step = "dash" /\ r_log.dashed
    /\ r_player.stamina = -200

(***************************************************************************)
(* C35: in game2mod.py the ammunition stays within 0 .. PLAYER_AMMO; it    *)
(* goes down only by a shot, which needs a round and no reload under way,  *)
(* takes exactly one round and appends exactly one bullet before the       *)
(* bullets are updated; a reload starts only when none is under way and    *)
(* the magazine is not full, with RELOAD_TIME on its timer; the timer runs *)
(* down by the dt of the frames of Game.update only, the rounds stay as    *)
(* they are while it is above zero, and the magazine is full again in the  *)
(* frame that brings it to zero or below.  The only other way the          *)
(* ammunition changes is the new Player of Game.start.                     *)
(***************************************************************************)
C35_AmmoAndReload ==
    [][variant = "cyber" =>
         LET p == m_player
             q == m_player'
             frame == m_ticks' = m_ticks + 1
             started == m_state # "playing" /\ m_state' = "playing" /\ q = M_NewPlayer
         IN
         /\ q.ammo >= 0 /\ q.ammo <= M_PLAYER_AMMO
         /\ q.ammo < p.ammo =>
               /\ p.ammo > 0 /\ ~p.reloading /\ ~q.reloading
               /\ q.ammo = p.ammo - 1
               /\ m_state = "playing" /\ frame
               /\ m_bullets' = M_UpdateBullets(
                                   Append(m_bullets, M_NewBullet(FreshId(M_Ids(m_bullets)))),
                                   m_dt')
         /\ (M_Ids(m_bullets') \ M_Ids(m_bullets) # {}) => q.ammo = p.ammo - 1
         /\ (~p.reloading /\ q.reloading) =>
               /\ p.ammo < M_PLAYER_AMMO /\ q.ammo = p.ammo
               /\ q.reload_timer = M_RELOAD_TIME
               /\ ~frame
         /\ (p.reloading /\ q.reloading) =>
               /\ q.ammo = p.ammo
               /\ q.reload_timer > 0
               /\ q.reload_timer = IF frame THEN p.reload_timer - m_dt' ELSE p.reload_timer
         /\ (p.reloading /\ ~q.reloading) =>
               \/ started
               \/ /\ frame /\ m_state = "playing"
                  /\ q.ammo = M_PLAYER_AMMO
                  /\ q.reload_timer = p.reload_timer - m_dt'
                  /\ q.reload_timer <= 0
         /\ q.ammo > p.ammo => (started \/ (p.reloading /\ ~q.reloading))
      ]_vars

\* C35: a reload that began with at most one round left is over in the second
\* frame of 1.2 s, the magazine is full, and the timer is 0.9 s below zero
C35_Witness ==
    /\ variant = "cyber" /\ m_state = "playing" /\ m_ticks = 2
    /\ m_player.ammo = M_PLAYER_AMMO
    /\ ~m_player.reloading
    /\ m_player.reload_timer = M_RELOAD_TIME - 2400

\* the button is down on an empty magazine, or a reload is 1.45 s old
DryMagazine ==
    /\ variant = "cyber" /\ m_state = "playing" /\ m_ticks = 2
    /\ m_player.ammo = 0
    /\ m_player.reloading
    /\ m_player.reload_timer = M_RELOAD_TIME - 1450

(***************************************************************************)
(* C36: in game3.py the player's hp goes down only in a step that found    *)
(* inv_timer <= 0, by the damage of one enemy projectile, and that step    *)
(* sets inv_timer to 0.6 s; at that moment the last damage, if any, is at  *)
(* least 0.6 s of simulated time old (so no tick hurts twice) and the last *)
(* dash that began is at least 0.9 s old; a dash that begins sets          *)
(* inv_timer to 0.9 s.                                                     *)
(***************************************************************************)
C36_InvincibilityFrames ==
    [][variant = "forge" =>
         LET p == s_player
             q == s_player'
         IN
         /\ q.hp < p.hp =>
               /\ p.inv_timer <= 0
               /\ q.hp = p.hp - S_ENEMY_SHOT_DAMAGE
               /\ q.inv_timer = S_HIT_INVINCIBLE
               /\ s_since.hit = -1 \/ s_since.hit >= S_HIT_INVINCIBLE
               /\ s_since.dash = -1 \/ s_since.dash >= INVINCIBLE_TIME
               /\ s_since'.hit = 0
         /\ q.dash_timer > p.dash_timer =>
               /\ q.inv_timer = INVINCIBLE_TIME
               /\ s_since'.dash = 0
      ]_vars

\* C36: the player was hit in the first tick, dashed, and is hit again in the
\* second tick, 1.2 s after the first hit and after the dash
C36_Witness ==
    /\ variant = "forge" /\ s_ticks = 2
    /\ s_player.hp = S_PLAYER_HP - 2 * S_ENEMY_SHOT_DAMAGE
    /\ s_player.inv_timer = S_HIT_INVINCIBLE
    /\ s_since = [hit |-> 0, dash |-> 1200]

(***************************************************************************)
(* C37: in tictac.py a click never changes a cell that is marked, and      *)
(* while three equal marks stand in a row, a column or a diagonal, or no   *)
(* cell is empty, no click changes the board or current_player: only       *)
(* reset_game does.                                                        *)
(***************************************************************************)
C37_NoMoveAfterTheEnd ==
    [][(variant = "board" /\ b_log'.step = "click") =>
         LET lines == {{0, 1, 2}, {3, 4, 5}, {6, 7, 8}, {0, 3, 6}, {1, 4, 7}, {2, 5, 8},
                       {0, 4, 8}, {2, 4, 6}}
             won == \E l \in lines : \E mark \in {"X", "O"} : \A c \in l : b_board[c] = mark
             full == \A c \in B_Cells : b_board[c] # ""
         IN
         /\ \A c \in B_Cells : b_board[c] # "" => b_board'[c] = b_board[c]
         /\ (won \/ full) => (b_board' = b_board /\ b_current' = b_current)
      ]_vars

\* C37: a line is complete, and the last click, on an empty cell, placed nothing
C37_Witness ==
    /\ variant = "board"
    /\ b_log.step = "click" /\ ~b_log.placed
    /\ b_board[b_log.index] = ""
    /\ b_board[2] = "O" /\ b_board[4] = "O" /\ b_board[6] = "O"

\* the board is full without a line, and the last click placed nothing
FullBoardClick ==
    /\ variant = "board"
    /\ b_log.step = "click" /\ ~b_log.placed
    /\ \A c \in B_Cells : b_board[c] # ""
    /\ b_status.kind = "draw"

(***************************************************************************)
(* C38: in tictac.py, in every reachable state, the X marks are as many as *)
(* the O marks or one more, an empty board has X to move (and so has the   *)
(* state after every reset), and at most one player has three marks in a   *)
(* row, a column or a diagonal.                                            *)
(***************************************************************************)
C38_TurnsAlternate ==
    variant = "board" =>
       LET count(mark) == Cardinality({c \in B_Cells : b_board[c] = mark})
           lines == {{0, 1, 2}, {3, 4, 5}, {6, 7, 8}, {0, 3, 6}, {1, 4, 7}, {2, 5, 8},
                     {0, 4, 8}, {2, 4, 6}}
           has(mark) == \E l \in lines : \A c \in l : b_board[c] = mark
       IN
       /\ count("X") - count("O") \in {0, 1}
       /\ (\A c \in B_Cells : b_board[c] = "") => b_current = "X"
       /\ b_log.step = "reset" => b_current = "X"
       /\ ~(has("X") /\ has("O"))

\* C38: O has completed the middle row with its third mark, X has three marks
\* and no line, and a reset has not happened since
C38_Witness ==
    /\ variant = "board"
    /\ b_log.step = "click" /\ b_log.placed
    /\ b_board[3] = "O" /\ b_board[4] = "O" /\ b_board[5] = "O"
    /\ Cardinality({c \in B_Cells : b_board[c] = "X"}) = 3
    /\ b_status = [kind |-> "wins", player |-> "O"]

(***************************************************************************)
(* C39: in patient.py, whatever the interleaving of the calls of           *)
(* request_ambulance, no two rows of requests have the same driver_id, and *)
(* a call that found no available driver replied with the error and has    *)
(* no row in requests.                                                     *)
(***************************************************************************)
C39_OneRequestPerDriver ==
    variant = "dispatch" =>
       /\ \A i, k \in 1 .. Len(p_requests) :
             p_requests[i].driver_id = p_requests[k].driver_id => i = k
       /\ \A c \in P_Calls :
             (p_calls[c].pc # "idle" /\ p_calls[c].seen = <<>>) =>
                /\ p_calls[c].reply = "error"
                /\ \A i \in 1 .. Len(p_requests) : p_requests[i].user_id # c

\* a call finds no driver available after another has been dispatched the
\* only one
NoDriverLeft ==
    /\ variant = "dispatch"
    /\ Len(p_requests) = 1
    /\ \E c \in P_Calls : p_calls[c].reply = "error" /\ p_requests[1].user_id # c

====
